---- MODULE Spec2Model ----
(***************************************************************************)
(* Model of the conversational inventory / finance assistant              *)
(* (tiagowhuber/ffstudios-chat-bot): the slot-filling rules and the        *)
(* PendingAction record of src/bot/conversation_state.py, the chat         *)
(* handler of src/bot/handlers.py, the orchestrator                        *)
(* (SmartInventoryService) and the mutation operations it dispatches to.   *)
(*                                                                         *)
(* Python values are tagged records so that values of different Python     *)
(* types can be compared: None, a str (a sequence of characters), a        *)
(* number, a list of names.                                                *)
(***************************************************************************)
EXTENDS Integers, Sequences, FiniteSets, TLC

VARIABLES
    smart_inventory, \* handlers.py:22  TRUE iff an OPENAI_API_KEY is configured
    user_data,       \* context.user_data of every user
    inventory,       \* stock per product: NoRow, or the quantity of its row
    gastos,          \* the number of rows of the expense (gastos) table
    last,            \* what the last handle_message call did
    sK, sF, sOut, spc \* arguments, result and position of a function's driver

vars == <<smart_inventory, user_data, inventory, gastos, last, sK, sF, sOut, spc>>
conv_vars == <<smart_inventory, user_data, inventory, gastos, last>>
slot_vars == <<sK, sF, sOut, spc>>

(***************************************************************************)
(* Bounds of the model.                                                    *)
(***************************************************************************)
MaxHoles == 2    \* fields of an oracle reply that are not plainly filled
MaxStock == 2    \* cap of a product's stock
MaxGastos == 1   \* cap of the number of expense records

(***************************************************************************)
(* Python values.                                                          *)
(***************************************************************************)
None == [t |-> "none", s |-> <<>>, n |-> 0, l |-> <<>>]
Str(s) == [t |-> "str", s |-> s, n |-> 0, l |-> <<>>]
Num(n) == [t |-> "num", s |-> <<>>, n |-> n, l |-> <<>>]
List(l) == [t |-> "list", s |-> <<>>, n |-> 0, l |-> l]

Range(q) == {q[i] : i \in 1..Len(q)}

\* The whitespace of the model: the space and the tab.
IsSpace(c) == c \in {" ", "\t"}

\* str.strip(): drop the leading and the trailing whitespace.
RECURSIVE LStrip(_)
LStrip(s) == IF s # <<>> /\ IsSpace(Head(s)) THEN LStrip(Tail(s)) ELSE s

RECURSIVE RStrip(_)
RStrip(s) ==
    IF s # <<>> /\ IsSpace(s[Len(s)]) THEN RStrip(SubSeq(s, 1, Len(s) - 1)) ELSE s

Strip(s) == RStrip(LStrip(s))

\* Python truthiness of a value (bool(v)).
Truthy(v) ==
    CASE v.t = "none" -> FALSE
      [] v.t = "str" -> v.s # <<>>
      [] v.t = "num" -> v.n # 0
      [] OTHER -> v.l # <<>>

(***************************************************************************)
(* conversation_state.py: PendingAction and the slot-filling rules.        *)
(***************************************************************************)
\* The optional data fields of PendingAction, in declaration order.
DataFields ==
    <<"ingredient_name", "quantity", "unit", "cost", "currency", "provider",
      "payment_method", "expense_category", "reason">>

RegisterKinds == {"register_purchase", "register_expense", "register_usage"}

\* The table that gives the name of the ingredient for a kind without an
\* entry.
RequiredFieldsOrName(action) ==
    CASE action = "register_purchase" ->
            <<"ingredient_name", "quantity", "unit", "cost", "provider",
              "payment_method">>
      [] action = "register_expense" ->
            <<"expense_category", "cost", "provider", "payment_method">>
      [] action = "register_usage" -> <<"ingredient_name", "quantity">>
      [] OTHER -> <<"ingredient_name">>

get_required_fields(action) ==
    CASE action = "register_purchase" ->
            <<"ingredient_name", "quantity", "unit", "cost", "provider",
              "payment_method">>
      [] action = "register_expense" ->
            <<"expense_category", "cost", "provider", "payment_method">>
      [] action = "register_usage" -> <<"ingredient_name", "quantity">>
      [] OTHER -> <<>>

\* dict.get(key): None when the key is absent.
DictGet(d, key) == IF key \in DOMAIN d THEN d[key] ELSE None

\* The field test without the rule of the cost.
FieldIsMissingNoCostRule(field, value) ==
    value.t = "none" \/ (value.t = "str" /\ Strip(value.s) = <<>>)

\* The field test that finds no field missing.
FieldNeverMissing(field, value) == FALSE

\* The field test that only knows None.
FieldIsMissingNoneOnly(field, value) == value.t = "none"

\* The test of one field in check_missing_fields' loop.

FieldIsMissing(field, value) ==
    \/ value.t = "none"
    \/ value.t = "str" /\ Strip(value.s) = <<>>
    \/ field = "cost" /\ value.t = "num" /\ value.n = 0

RECURSIVE MissingFrom(_, _)
MissingFrom(required, parsed_data) ==
    IF required = <<>> THEN <<>>
    ELSE LET field == Head(required)
             rest == MissingFrom(Tail(required), parsed_data)
         IN IF FieldIsMissing(field, DictGet(parsed_data, field))
            THEN <<field>> \o rest
            ELSE rest

\* The detector that reports every required field.
CheckMissingAll(action, parsed_data) == get_required_fields(action)

check_missing_fields(action, parsed_data) ==
    MissingFrom(get_required_fields(action), parsed_data)

(***************************************************************************)
(* Driver of the slot-filling rules: the inputs are drawn in InitSlots,    *)
(* the action applies the function.                                        *)
(***************************************************************************)
\* The kinds a call is made with: the three with a table entry, one without,
\* and one that differs from an entry in its capitals only.
SlotKinds == RegisterKinds \cup {"check_stock", "Register_Purchase"}

SlotFieldNames ==
    {"ingredient_name", "quantity", "unit", "cost", "provider", "payment_method",
     "expense_category"}

\* A plainly filled value of a field.
GoodValue(f) == IF f \in {"quantity", "cost"} THEN Num(1) ELSE Str(<<"a">>)

\* What a field may hold instead; "absent" stands for a key the dict lacks.
OddValues ==
    {None, Str(<<>>), Str(<<" ">>), Str(<<" ", "a">>), Num(0), Num(2)}

Absent == [t |-> "absent", s |-> <<>>, n |-> 0, l |-> <<>>]

\* The dict in which the fields of `holes` hold h[f] and the others are filled.
DictWith(names, holes, h) ==
    [f \in {g \in names : g \notin holes \/ h[g] # Absent} |->
        IF f \in holes THEN h[f] ELSE GoodValue(f)]

SlotDicts ==
    UNION {{DictWith(SlotFieldNames, holes, h) :
                h \in [holes -> OddValues \cup {Absent}]} :
           holes \in {x \in SUBSET SlotFieldNames : Cardinality(x) <= MaxHoles}}

IdleSlots == sK = "" /\ sF = <<>> /\ sOut = <<>> /\ spc = "idle"

InitSlots ==
    /\ sK \in SlotKinds
    /\ sF \in SlotDicts
    /\ sOut = <<>>
    /\ spc = "start"

ApplyCheckMissing ==
    /\ spc = "start"
    /\ sOut' = check_missing_fields(sK, sF)
    /\ spc' = "done"
    /\ UNCHANGED <<sK, sF>>


(***************************************************************************)
(* PendingAction (conversation_state.py:20-65).  A PendingAction is the    *)
(* record of its attributes; every attribute holds a Python value.         *)
(***************************************************************************)
post_init(p) ==
    IF p.missing_fields.t = "none" THEN [p EXCEPT !.missing_fields = List(<<>>)]
    ELSE p

\* PendingAction(action=..., original_message=..., <the data fields of d>,
\* missing_fields=...)
NewPendingAction(action, original_message, d, missing) ==
    post_init(
        [action |-> Str(<<action>>),
         original_message |-> Str(<<original_message>>),
         ingredient_name |-> DictGet(d, "ingredient_name"),
         quantity |-> DictGet(d, "quantity"),
         unit |-> DictGet(d, "unit"),
         cost |-> DictGet(d, "cost"),
         currency |-> DictGet(d, "currency"),
         provider |-> DictGet(d, "provider"),
         payment_method |-> DictGet(d, "payment_method"),
         expense_category |-> DictGet(d, "expense_category"),
         reason |-> DictGet(d, "reason"),
         missing_fields |-> missing])

\* list.remove that drops the elements before x as well.
RECURSIVE ListDropThrough(_, _)
ListDropThrough(l, x) ==
    IF l = <<>> THEN <<>>
    ELSE IF Head(l) = x THEN Tail(l)
    ELSE ListDropThrough(Tail(l), x)

\* from_dict that starts with an empty missing_fields.
FromDictNoMissing(data) ==
    [k \in DOMAIN data |-> IF k = "missing_fields" THEN List(<<>>) ELSE data[k]]

ActionOf(p) == p.action.s[1]

to_dict(p) == [k \in DOMAIN p |-> p[k]]

from_dict(data) == post_init([k \in DOMAIN data |-> data[k]])

\* list.remove(x): drop the first occurrence.
RECURSIVE ListRemove(_, _)
ListRemove(l, x) ==
    IF l = <<>> THEN <<>>
    ELSE IF Head(l) = x THEN Tail(l)
    ELSE <<Head(l)>> \o ListRemove(Tail(l), x)

\* One iteration of merge_with_supplement's loop, without the None test.
MergeItemKeepNone(p, field, value) ==
    IF field \in DOMAIN p
    THEN LET q == [p EXCEPT ![field] = value]
         IN IF field \in Range(q.missing_fields.l)
            THEN [q EXCEPT !.missing_fields = List(ListRemove(q.missing_fields.l, field))]
            ELSE q
    ELSE p

\* One iteration of merge_with_supplement's loop.
MergeItem(p, field, value) ==
    IF value.t # "none" /\ field \in DOMAIN p
    THEN LET q == [p EXCEPT ![field] = value]
         IN IF field \in Range(q.missing_fields.l)
            THEN [q EXCEPT !.missing_fields = List(ListRemove(q.missing_fields.l, field))]
            ELSE q
    ELSE p

\* supplement_data is the sequence of the dict's (key, value) items.
RECURSIVE merge_with_supplement(_, _)
merge_with_supplement(p, supplement_data) ==
    IF supplement_data = <<>> THEN p
    ELSE merge_with_supplement(
            MergeItem(p, Head(supplement_data)[1], Head(supplement_data)[2]),
            Tail(supplement_data))

(***************************************************************************)
(* format_missing_fields_prompt (conversation_state.py:167-197).  A text   *)
(* is the sequence of its pieces.                                          *)
(***************************************************************************)
field_translations(f) ==
    CASE f = "ingredient_name" -> "nombre del producto"
      [] f = "quantity" -> "cantidad"
      [] f = "unit" -> "unidad de medida"
      [] f = "cost" -> "precio"
      [] f = "provider" -> "proveedor"
      [] f = "payment_method" -> "medio de pago"
      [] f = "expense_category" -> "categoria del gasto"
      [] f = "reason" -> "motivo"
      [] OTHER -> f

\* A join that puts the conjunction between all the names.
RECURSIVE JoinWithY(_)
JoinWithY(l) ==
    IF l = <<>> THEN <<>>
    ELSE IF Len(l) = 1 THEN l
    ELSE <<Head(l), " y ">> \o JoinWithY(Tail(l))

\* ', '.join(l)
RECURSIVE JoinComma(_)
JoinComma(l) ==
    IF l = <<>> THEN <<>>
    ELSE IF Len(l) = 1 THEN l
    ELSE <<Head(l), ", ">> \o JoinComma(Tail(l))

\* Raises IndexError on the empty list (translated[-1]): callers pass a
\* non-empty list.
format_missing_fields_prompt(missing_fields) ==
    LET translated == [i \in 1..Len(missing_fields) |->
                            field_translations(missing_fields[i])]
        n == Len(translated)
    IN IF n = 1 THEN <<"Por favor indicame: ", translated[1]>>
       ELSE IF n = 2
            THEN <<"Por favor indicame: ", translated[1], " y ", translated[2]>>
       ELSE <<"Por favor indicame: ">> \o JoinComma(SubSeq(translated, 1, n - 1))
                \o <<" y ", translated[n]>>

(***************************************************************************)
(* ConversationStateManager (conversation_state.py:67-105).  A user's      *)
(* user_data is a dict with the optional keys 'pending_action' and         *)
(* 'conversation_state'; an optional key is the sequence of at most one    *)
(* value.                                                                  *)
(***************************************************************************)
EmptyUserData == [pending_action |-> <<>>, conversation_state |-> <<>>]

get_state(ud) ==
    IF ud.conversation_state = <<>> THEN "idle" ELSE ud.conversation_state[1]

set_state(ud, state) == [ud EXCEPT !.conversation_state = <<state>>]

set_pending_action(ud, pending_action) ==
    [ud EXCEPT !.pending_action = <<to_dict(pending_action)>>]

\* The optional PendingAction: <<>> is None.
get_pending_action(ud) ==
    IF ud.pending_action # <<>> /\ DOMAIN ud.pending_action[1] # {}
    THEN <<from_dict(ud.pending_action[1])>>
    ELSE <<>>

\* clear_pending_action that keeps the conversation state.
ClearKeepsState(ud) == [ud EXCEPT !.pending_action = <<>>]

clear_pending_action(ud) ==
    [pending_action |-> <<>>, conversation_state |-> <<"idle">>]

has_pending_action(ud) == ud.pending_action # <<>>


(***************************************************************************)
(* Driver of PendingAction: a pending action (sK) and a supplement (sF)    *)
(* are drawn in InitMerge, the action merges the supplement once and       *)
(* twice, and stores the pending action and reads it back.                 *)
(***************************************************************************)
MaxItems == 2   \* items of a supplement

\* Purchases whose missing_fields is what check_missing_fields gives, or a
\* list a caller builds otherwise.
MergePendings ==
    {NewPendingAction("register_purchase", "compre",
                      [f \in SlotFieldNames |->
                            IF f \in {"cost", "provider", "payment_method"}
                            THEN h[f] ELSE GoodValue(f)],
                      List(missing)) :
        h \in [{"cost", "provider", "payment_method"} -> {None, Str(<<"a">>)}],
        missing \in {<<>>, <<"provider">>, <<"provider", "payment_method">>,
                     <<"payment_method", "provider">>,
                     <<"cost", "provider", "payment_method">>,
                     <<"provider", "provider">>}}

\* The supplements: the items of a dict in its order, the keys distinct.
\* "foo" names no attribute of a PendingAction, "missing_fields" names one
\* that is no data field, as "action" does; the provider may be told as an
\* empty text.
MergeSupplements ==
    LET Keys == {"provider", "payment_method", "cost", "foo", "missing_fields",
                 "action"}
        Values(k) == IF k = "missing_fields" THEN {None, List(<<"cost">>)}
                     ELSE IF k = "provider" THEN {None, Str(<<"b">>), Str(<<>>)}
                     ELSE {None, Str(<<"b">>)}
        Items == {<<k, v>> : k \in Keys,
                             v \in {None, Str(<<"b">>), Str(<<>>), List(<<"cost">>)}}
    IN {sup \in UNION {[1..n -> Items] : n \in 0..MaxItems} :
            /\ \A i \in DOMAIN sup : sup[i][2] \in Values(sup[i][1])
            /\ \A i, j \in DOMAIN sup : i # j => sup[i][1] # sup[j][1]}

(***************************************************************************)
(* The persistence layer as the conversation sees it: the stock of every   *)
(* product (inventory) and the number of expense rows (gastos).            *)
(***************************************************************************)
\* The names of the model: harina and two misspellings of it, typed in
\* messages; the products are harina and two names that do not resemble it.
Harina == <<"h", "a", "r", "i", "n", "a">>
Harna == <<"h", "a", "r", "n", "a">>
Hrna == <<"h", "r", "n", "a">>

ProductList == <<Harina, <<"a">>, <<>>>>

Products == Range(ProductList)

NoRow == -1

GoodDb(inv, g) == [ok |-> TRUE, inventory |-> inv, gastos |-> g]
FailedDb(inv, g) == [ok |-> FALSE, inventory |-> inv, gastos |-> g]

\* The stock-update trigger of the gastos table: a purchase row raises the
\* product's stock, creating its inventory row when there is none.
StockTrigger(inv, product, quantity) ==
    IF quantity.t = "num"
    THEN [inv EXCEPT ![product] = (IF @ = NoRow THEN 0 ELSE @) + quantity.n]
    ELSE inv

\* FinanceService.register_purchase: a Gasto, or None (ok = FALSE) with
\* everything rolled back when a step raises.
register_purchase(inv, g, product_name, quantity, cost, db_ok) ==
    IF ~db_ok \/ product_name.t # "str" \/ product_name.s \notin Products
    THEN FailedDb(inv, g)
    ELSE GoodDb(StockTrigger(inv, product_name.s, quantity), g + 1)

\* FinanceService.register_expense: one expense row, no stock effect.
register_expense(inv, g, cost, db_ok) ==
    IF ~db_ok THEN FailedDb(inv, g) ELSE GoodDb(inv, g + 1)

\* InventoryService.register_usage: the row of the product after the stock
\* decrease, or a failure (unknown product, insufficient stock, database
\* error) that writes nothing.
register_usage(inv, g, product_name, quantity, db_ok) ==
    IF \/ ~db_ok
       \/ product_name.t # "str" \/ product_name.s \notin Products
       \/ quantity.t # "num"
    THEN FailedDb(inv, g)
    ELSE IF inv[product_name.s] = NoRow \/ inv[product_name.s] < quantity.n
    THEN FailedDb(inv, g)
    ELSE GoodDb([inv EXCEPT ![product_name.s] = @ - quantity.n], g)

(***************************************************************************)
(* FuzzyMatcher (fuzzy_matcher.py).  A text is its sequence of characters, *)
(* a similarity the fraction <<numerator, denominator>> that               *)
(* SequenceMatcher.ratio() computes: 2 * M / T.                            *)
(***************************************************************************)
LowerCase ==
    <<"a", "b", "c", "d", "e", "f", "g", "h", "i", "j", "k", "l", "m",
      "n", "o", "p", "q", "r", "s", "t", "u", "v", "w", "x", "y", "z">>
UpperCase ==
    <<"A", "B", "C", "D", "E", "F", "G", "H", "I", "J", "K", "L", "M",
      "N", "O", "P", "Q", "R", "S", "T", "U", "V", "W", "X", "Y", "Z">>
Accented == <<"á", "é", "í", "ó", "ú", "ü", "ñ", "ã">>
AccentedUpper == <<"Á", "É", "Í", "Ó", "Ú", "Ü", "Ñ", "Ã">>
Unaccented == <<"a", "e", "i", "o", "u", "u", "n", "a">>
Letters == {LowerCase[i] : i \in DOMAIN LowerCase}
Digits == {"0", "1", "2", "3", "4", "5", "6", "7", "8", "9"}

\* The character of row `to` that stands where c stands in row `from`.
Mapped(c, from, to) == to[CHOOSE i \in DOMAIN from : from[i] = c]

\* str.lower() of one character.
LowerChar(c) ==
    IF \E i \in DOMAIN UpperCase : UpperCase[i] = c
    THEN Mapped(c, UpperCase, LowerCase)
    ELSE IF \E i \in DOMAIN AccentedUpper : AccentedUpper[i] = c
    THEN Mapped(c, AccentedUpper, Accented)
    ELSE c

\* unicodedata.normalize('NFD', ...) without the characters of category Mn.
Unaccent(c) ==
    IF \E i \in DOMAIN Accented : Accented[i] = c
    THEN Mapped(c, Accented, Unaccented)
    ELSE c

\* re.sub(r'[^a-z0-9\s]', '', ...) of one character.
Kept(c) == IF c \in Letters \cup Digits \/ IsSpace(c) THEN <<c>> ELSE <<>>

NormalChar(c) == Kept(Unaccent(LowerChar(c)))

RECURSIVE Lower(_)
Lower(text) ==
    IF text = <<>> THEN <<>> ELSE <<LowerChar(Head(text))>> \o Lower(Tail(text))

RECURSIVE Cleaned(_)
Cleaned(text) ==
    IF text = <<>> THEN <<>> ELSE NormalChar(Head(text)) \o Cleaned(Tail(text))

\* re.sub(r'\s+', ' ', cleaned)
RECURSIVE Collapsed(_)
Collapsed(s) ==
    IF s = <<>> THEN <<>>
    ELSE IF ~IsSpace(Head(s)) THEN <<Head(s)>> \o Collapsed(Tail(s))
    ELSE IF Len(s) > 1 /\ IsSpace(s[2]) THEN Collapsed(Tail(s))
    ELSE <<" ">> \o Collapsed(Tail(s))

\* normalize_string that does not collapse the whitespace.
StripCleaned(text) == Strip(Cleaned(text))

normalize_string(text) == Strip(Collapsed(Cleaned(text)))

\* The length of the common run of a and b that starts at a[i] and b[j]
\* and stays inside a[..ahi] and b[..bhi].
RECURSIVE RunLength(_, _, _, _, _, _)
RunLength(a, b, i, j, ahi, bhi) ==
    IF i > ahi \/ j > bhi THEN 0
    ELSE IF a[i] # b[j] THEN 0
    ELSE 1 + RunLength(a, b, i + 1, j + 1, ahi, bhi)

\* SequenceMatcher.find_longest_match on a[alo..ahi], b[blo..bhi]: of the
\* longest common blocks the one that starts earliest in a, and of those
\* the one that starts earliest in b: <<i, j, size>>.
LongerOrEarlier(m, d) ==
    \/ m[3] > d[3]
    \/ m[3] = d[3] /\ (m[1] < d[1] \/ (m[1] = d[1] /\ m[2] <= d[2]))

FirstLongest(blocks) == CHOOSE m \in blocks : \A d \in blocks : LongerOrEarlier(m, d)

find_longest_match(a, b, alo, ahi, blo, bhi) ==
    FirstLongest({<<c[1], c[2], RunLength(a, b, c[1], c[2], ahi, bhi)>> :
                    c \in (alo..ahi) \X (blo..bhi)})

\* get_matching_blocks: the longest block, then the blocks to its left and
\* to its right; MatchingSize is the sum of their sizes.
RECURSIVE MatchingSize(_, _, _, _, _, _)
MatchingAround(a, b, alo, ahi, blo, bhi, m) ==
    IF m[3] = 0 THEN 0
    ELSE m[3] + MatchingSize(a, b, alo, m[1] - 1, blo, m[2] - 1)
              + MatchingSize(a, b, m[1] + m[3], ahi, m[2] + m[3], bhi)

MatchingSize(a, b, alo, ahi, blo, bhi) ==
    IF alo > ahi \/ blo > bhi THEN 0
    ELSE MatchingAround(a, b, alo, ahi, blo, bhi,
                        find_longest_match(a, b, alo, ahi, blo, bhi))

\* SequenceMatcher(None, a, b).ratio(): 1.0 when both are empty.
ratio(a, b) ==
    IF Len(a) + Len(b) = 0 THEN <<1, 1>>
    ELSE <<2 * MatchingSize(a, b, 1, Len(a), 1, Len(b)), Len(a) + Len(b)>>

\* calculate_similarity on the texts as they are typed.
SimilarityOfRaw(str1, str2) ==
    IF str1 = <<>> \/ str2 = <<>> THEN <<0, 1>> ELSE ratio(str1, str2)

\* calculate_similarity without the test for an empty argument.
SimilarityUnguarded(str1, str2) ==
    ratio(normalize_string(str1), normalize_string(str2))

calculate_similarity(str1, str2) ==
    IF str1 = <<>> \/ str2 = <<>> THEN <<0, 1>>
    ELSE ratio(normalize_string(str1), normalize_string(str2))

\* x >= y and x > y of two similarities.
AtLeast(x, y) == x[1] * y[2] >= y[1] * x[2]
Above(x, y) == x[1] * y[2] > y[1] * x[2]

\* The candidates of similarity >= min_similarity with their similarity,
\* in the order of the list.
RECURSIVE Passing(_, _, _)
PassingFrom(target, candidate, similarity, rest, min_similarity) ==
    (IF AtLeast(similarity, min_similarity)
     THEN <<<<candidate, similarity>>>> ELSE <<>>)
    \o Passing(target, rest, min_similarity)

Passing(target, candidates, min_similarity) ==
    IF candidates = <<>> THEN <<>>
    ELSE PassingFrom(target, Head(candidates),
                     calculate_similarity(target, Head(candidates)),
                     Tail(candidates), min_similarity)

\* A sort that puts a pair in front of the pairs of the same similarity.
RECURSIVE InsertBeforeEqual(_, _)
InsertBeforeEqual(sorted, pair) ==
    IF sorted = <<>> THEN <<pair>>
    ELSE IF Above(Head(sorted)[2], pair[2])
    THEN <<Head(sorted)>> \o InsertBeforeEqual(Tail(sorted), pair)
    ELSE <<pair>> \o sorted

\* list.sort(key=similarity, reverse=True) is stable: a pair goes behind
\* every pair of the same or a higher similarity that stood before it.
RECURSIVE InsertSorted(_, _)
InsertSorted(sorted, pair) ==
    IF sorted = <<>> THEN <<pair>>
    ELSE IF AtLeast(Head(sorted)[2], pair[2])
    THEN <<Head(sorted)>> \o InsertSorted(Tail(sorted), pair)
    ELSE <<pair>> \o sorted

RECURSIVE SortedFrom(_, _)
SortedFrom(sorted, rest) ==
    IF rest = <<>> THEN sorted
    ELSE SortedFrom(InsertSorted(sorted, Head(rest)), Tail(rest))

\* similarities[:max_results], max_results >= 0
FirstOf(s, max_results) ==
    SubSeq(s, 1, IF Len(s) < max_results THEN Len(s) ELSE max_results)

\* find_best_matches: the sequence of <<candidate, similarity>>.
find_best_matches(target, candidates, min_similarity, max_results) ==
    IF target = <<>> \/ candidates = <<>> THEN <<>>
    ELSE FirstOf(SortedFrom(<<>>, Passing(target, candidates, min_similarity)),
                 max_results)

FirstOrNone(matches) == IF matches = <<>> THEN <<>> ELSE matches[1]

\* find_best_match: <<>> or <<candidate, similarity>>.
find_best_match(target, candidates, min_similarity) ==
    FirstOrNone(find_best_matches(target, candidates, min_similarity, 1))

\* is_close_match
is_close_match(str1, str2, min_similarity) ==
    AtLeast(calculate_similarity(str1, str2), min_similarity)

(***************************************************************************)
(* InventoryService (inventory_service.py) on the stock, and the handlers  *)
(* of SmartInventoryService that call it.  The stock and the quantities of *)
(* the messages are counted in hundredths, the scale of the quantity       *)
(* column (models.py:32, Numeric(10, 2)); the quantity a mutation is       *)
(* called with is counted in thousandths.  A result of a handler is        *)
(* [success, text, inventory].                                             *)
(***************************************************************************)
HResult(success, text, inv) == [success |-> success, text |-> text, inventory |-> inv]

\* The value (in hundredths) the column keeps of x thousandths: a numeric
\* column rounds to its scale, half away from zero.
Stored(x) == IF x >= 0 THEN (x + 5) \div 10 ELSE 0 - ((5 - x) \div 10)

\* A mutation's outcome: the ValueError it raises, or the row's quantity
\* after commit and refresh.
Raised(error) == [ok |-> FALSE, error |-> error, quantity |-> 0]
Updated(quantity) == [ok |-> TRUE, error |-> "", quantity |-> quantity]

\* str() of a quantity counted in hundredths, and of one in thousandths.
Hundredths(n) == ToString(n) \o "/100"
Thousandths(n) == ToString(n) \o "/1000"

\* remove_quantity without the test of the remaining stock, update_quantity
\* without the test of the sign.
RemoveUnchecked(stock, quantity_to_remove) ==
    IF quantity_to_remove <= 0 THEN Raised("La cantidad a quitar debe ser positiva")
    ELSE Updated(Stored(10 * stock - quantity_to_remove))

UpdateUnchecked(stock, new_quantity) == Updated(Stored(new_quantity))

\* update_quantity, add_quantity, remove_quantity on a row whose quantity
\* is stock.
update_quantity(stock, new_quantity) ==
    IF new_quantity < 0 THEN Raised("La cantidad no puede ser negativa")
    ELSE Updated(Stored(new_quantity))

add_quantity(stock, quantity_to_add) ==
    IF quantity_to_add <= 0 THEN Raised("La cantidad a agregar debe ser positiva")
    ELSE Updated(Stored(10 * stock + quantity_to_add))

remove_quantity(stock, quantity_to_remove) ==
    IF quantity_to_remove <= 0 THEN Raised("La cantidad a quitar debe ser positiva")
    ELSE IF 10 * stock - quantity_to_remove < 0
    THEN Raised("No se pueden quitar " \o Thousandths(quantity_to_remove)
                \o ". Solo hay " \o Hundredths(stock) \o " disponibles.")
    ELSE Updated(Stored(10 * stock - quantity_to_remove))

\* get_ingredient_by_name: the key of the row, <<>> when there is none.
get_ingredient_by_name(inv, name) ==
    IF name.t = "str" /\ Strip(name.s) \in Products /\ inv[Strip(name.s)] # NoRow
    THEN <<Strip(name.s)>>
    ELSE <<>>

\* The names of the rows, in the order the query returns them.
RowNames(inv) == SelectSeq(ProductList, LAMBDA p : inv[p] # NoRow)

\* get_ingredient_by_name_fuzzy: <<>>, or <<key of the row, similarity>>.
get_ingredient_by_name_fuzzy(inv, name, min_similarity) ==
    IF get_ingredient_by_name(inv, name) # <<>>
    THEN <<get_ingredient_by_name(inv, name)[1], <<1, 1>>>>
    ELSE find_best_match(name.s, RowNames(inv), min_similarity)

\* add_ingredient: "created", or the exception it raises.
add_ingredient(inv, name, quantity, unit) ==
    IF ~Truthy(name) THEN "ValueError"
    ELSE IF name.t # "str" THEN "Exception"
    ELSE IF Strip(name.s) = <<>> THEN "ValueError"
    ELSE IF quantity.t # "num" THEN "Exception"
    ELSE IF quantity.n < 0 \/ ~Truthy(unit) THEN "ValueError"
    ELSE IF unit.t # "str" THEN "Exception"
    ELSE IF Strip(unit.s) = <<>> THEN "ValueError"
    ELSE IF get_ingredient_by_name(inv, name) # <<>> THEN "ValueError"
    ELSE IF Strip(name.s) \notin Products THEN "Exception"
    ELSE "created"

\* The branch of a handler that creates the ingredient: made is what
\* add_ingredient did.
AddedNew(made, inv, name, quantity) ==
    IF made = "created"
    THEN HResult(TRUE, "Se agrego nuevo ingrediente",
                 [inv EXCEPT ![Strip(name.s)] = quantity.n])
    ELSE IF made = "ValueError"
    THEN HResult(FALSE, "Error: valor", inv)
    ELSE HResult(FALSE, "Error de base de datos", inv)

\* What a handler answers after the mutation of the row key gave out:
\* done is the confirmation, the ValueError is reported as it is.
Mutated(out, inv, key, done) ==
    IF out.ok THEN HResult(TRUE, done, [inv EXCEPT ![key] = out.quantity])
    ELSE HResult(FALSE, "Error: " \o out.error, inv)

\* A handler's answer to a name that has no row but is similar to one.
Suggested(inv) == HResult(TRUE, "Te refieres a", inv)

NotFound(inv) == HResult(FALSE, "no se encontro en el inventario", inv)

LikelyTypo(fuzzy_match) == ~AtLeast(fuzzy_match[2], <<9, 10>>)

\* _handle_add_quantity once the exact match existing and the fuzzy match
\* were looked up.
AddQuantityTo(existing, fuzzy_match, inv, name, quantity, unit) ==
    IF existing # <<>>
    THEN Mutated(add_quantity(inv[existing[1]], 10 * quantity.n), inv, existing[1],
                 "Se agregaron")
    ELSE IF fuzzy_match = <<>>
    THEN AddedNew(add_ingredient(inv, name, quantity, unit), inv, name, quantity)
    ELSE IF LikelyTypo(fuzzy_match) THEN Suggested(inv)
    ELSE Mutated(add_quantity(inv[fuzzy_match[1]], 10 * quantity.n), inv,
                 fuzzy_match[1], "Se agregaron (corregido de)")

_handle_add_quantity(inv, name, quantity, unit, db_ok) ==
    IF ~db_ok \/ name.t # "str" \/ quantity.t # "num"
    THEN HResult(FALSE, "Error de base de datos", inv)
    ELSE AddQuantityTo(get_ingredient_by_name(inv, name),
                       get_ingredient_by_name_fuzzy(inv, name, <<7, 10>>),
                       inv, name, quantity, unit)

\* _handle_remove_quantity once the ingredient was looked up.
RemoveQuantityFrom(existing, fuzzy_match, inv, name, quantity) ==
    IF existing = <<>> /\ fuzzy_match = <<>> THEN NotFound(inv)
    ELSE IF existing = <<>> /\ LikelyTypo(fuzzy_match) THEN Suggested(inv)
    ELSE IF quantity.t # "num"
    THEN HResult(FALSE, "Error de base de datos", inv)
    ELSE Mutated(remove_quantity(inv[fuzzy_match[1]], 10 * quantity.n), inv,
                 fuzzy_match[1],
                 IF fuzzy_match[1] # name.s THEN "Se quitaron (corregido de)"
                 ELSE "Se quitaron")

_handle_remove_quantity(inv, name, quantity, unit, db_ok) ==
    IF ~db_ok \/ name.t # "str"
    THEN HResult(FALSE, "Error de base de datos", inv)
    ELSE RemoveQuantityFrom(get_ingredient_by_name(inv, name),
                            get_ingredient_by_name_fuzzy(inv, name, <<7, 10>>),
                            inv, name, quantity)

\* The names that ask for the whole inventory.
StockWildcards ==
    {<<"t", "o", "d", "o">>, <<"t", "o", "d", "o", "s">>, <<"a", "l", "l">>,
     <<"e", "v", "e", "r", "y", "t", "h", "i", "n", "g">>,
     <<"i", "n", "v", "e", "n", "t", "a", "r", "i", "o">>,
     <<"i", "n", "v", "e", "n", "t", "o", "r", "y">>}

\* _handle_check_stock of a single ingredient once the exact match existing
\* and the fuzzy match were looked up.
StockOf(existing, fuzzy_match, inv) ==
    IF existing # <<>> THEN HResult(TRUE, "stock", inv)
    ELSE IF fuzzy_match = <<>>
    THEN HResult(TRUE, "no se encontro en el inventario", inv)
    ELSE IF LikelyTypo(fuzzy_match)
    THEN HResult(TRUE, "no se encontro exactamente. Te refieres a", inv)
    ELSE HResult(TRUE, "stock (corregido de)", inv)

\* _handle_check_stock that takes an empty inventory for a failure.
CheckStockEmptyFails(inv, name, db_ok) ==
    IF ~db_ok \/ name.t # "str" \/ RowNames(inv) = <<>>
    THEN HResult(FALSE, "Error de base de datos al verificar", inv)
    ELSE HResult(TRUE, "Inventario Actual", inv)

\* _handle_check_stock that opens a row for a name it does not find.
CheckStockCreates(inv, name, db_ok) ==
    IF ~db_ok \/ name.t # "str"
    THEN HResult(FALSE, "Error de base de datos al verificar", inv)
    ELSE IF name.s \in Products /\ inv[name.s] = NoRow
    THEN HResult(TRUE, "no se encontro en el inventario", [inv EXCEPT ![name.s] = 0])
    ELSE HResult(TRUE, "stock", inv)

_handle_check_stock(inv, name, db_ok) ==
    IF ~db_ok \/ name.t # "str"
    THEN HResult(FALSE, "Error de base de datos al verificar", inv)
    ELSE IF Lower(name.s) \in StockWildcards
    THEN HResult(TRUE, IF RowNames(inv) = <<>> THEN "El inventario esta vacio"
                       ELSE "Inventario Actual", inv)
    ELSE StockOf(get_ingredient_by_name(inv, name),
                 get_ingredient_by_name_fuzzy(inv, name, <<7, 10>>), inv)

\* The lines "name: quantity unit" of the text that _handle_check_stock
\* answers, each the <<name, quantity>> of the row it prints.
StockLine(inv, key) == <<key, inv[key]>>

StockLinesOf(existing, fuzzy_match, inv) ==
    IF existing # <<>> THEN {StockLine(inv, existing[1])}
    ELSE IF fuzzy_match = <<>> THEN {}
    ELSE {StockLine(inv, fuzzy_match[1])}

StockLines(inv, name, db_ok) ==
    IF ~db_ok \/ name.t # "str" THEN {}
    ELSE IF Lower(name.s) \in StockWildcards
    THEN {StockLine(inv, RowNames(inv)[i]) : i \in DOMAIN RowNames(inv)}
    ELSE StockLinesOf(get_ingredient_by_name(inv, name),
                      get_ingredient_by_name_fuzzy(inv, name, <<7, 10>>), inv)

\* _handle_update_quantity once the ingredient was looked up.
UpdateQuantityOf(existing, fuzzy_match, inv, name, quantity, unit) ==
    IF existing # <<>>
    THEN Mutated(update_quantity(inv[existing[1]], 10 * quantity.n), inv,
                 existing[1], "Se establecio")
    ELSE IF fuzzy_match = <<>>
    THEN AddedNew(add_ingredient(inv, name, quantity, unit), inv, name, quantity)
    ELSE IF LikelyTypo(fuzzy_match) THEN Suggested(inv)
    ELSE Mutated(update_quantity(inv[fuzzy_match[1]], 10 * quantity.n), inv,
                 fuzzy_match[1], "Se establecio (corregido de)")

\* update_quantity / add_ingredient behind "establecer X a N".
_handle_update_quantity(inv, name, quantity, unit, db_ok) ==
    IF ~db_ok \/ name.t # "str" \/ quantity.t # "num"
    THEN HResult(FALSE, "Error de base de datos", inv)
    ELSE UpdateQuantityOf(get_ingredient_by_name(inv, name),
                          get_ingredient_by_name_fuzzy(inv, name, <<7, 10>>),
                          inv, name, quantity, unit)

\* The defaults of _handle_add_new: quantity 0, unit 'pcs'.
OrZero(quantity) == IF quantity.t = "none" THEN Num(0) ELSE quantity
OrPcs(unit) == IF unit.t = "none" THEN Str(<<"pcs">>) ELSE unit

_handle_add_new(inv, name, quantity, unit, db_ok) ==
    IF ~db_ok THEN HResult(FALSE, "Error de base de datos", inv)
    ELSE AddedNew(add_ingredient(inv, name, OrZero(quantity), OrPcs(unit)),
                  inv, name, OrZero(quantity))

(***************************************************************************)
(* FinanceService (finance_service.py) on the tables of the entities.  A   *)
(* table is the sequence of the nombre of its records in the order of      *)
(* their ids; the tables are [proveedores, metodos_pago, categorias,       *)
(* productos, tipos_gasto].                                                *)
(***************************************************************************)
Desconocido == <<"D", "e", "s", "c", "o", "n", "o", "c", "i", "d", "o">>
Efectivo == <<"E", "f", "e", "c", "t", "i", "v", "o">>
TarjetaDeCredito ==
    <<"T", "a", "r", "j", "e", "t", "a", " ", "d", "e", " ", "C", "r", "é",
      "d", "i", "t", "o">>
TarjetaDeDebito ==
    <<"T", "a", "r", "j", "e", "t", "a", " ", "d", "e", " ", "D", "é", "b",
      "i", "t", "o">>
Transferencia ==
    <<"T", "r", "a", "n", "s", "f", "e", "r", "e", "n", "c", "i", "a">>
Insumos == <<"I", "n", "s", "u", "m", "o", "s">>
General == <<"G", "e", "n", "e", "r", "a", "l">>
Variable == <<"V", "a", "r", "i", "a", "b", "l", "e">>
Fijo == <<"F", "i", "j", "o">>
Ajuste == <<"A", "j", "u", "s", "t", "e">>
\* the payment method of the seed, as conftest.py:46 spells it
Debito == <<"D", "Ã", "©", "b", "i", "t", "o">>

\* The spellings _normalize_payment_method maps to the two cards.
CreditAliases ==
    {<<"c", "r", "e", "d", "i", "t", "o">>,
     <<"c", "r", "é", "d", "i", "t", "o">>,
     <<"t", "c">>,
     <<"t", "a", "r", "j", "e", "t", "a", " ", "d", "e", " ", "c", "r", "e", "d", "i", "t", "o">>}
DebitAliases ==
    {<<"d", "e", "b", "i", "t", "o">>,
     <<"d", "é", "b", "i", "t", "o">>,
     <<"t", "d">>,
     <<"t", "a", "r", "j", "e", "t", "a", " ", "d", "e", " ", "d", "e", "b", "i", "t", "o">>}

\* sub in s
Contains(sub, s) ==
    \E i \in 0..(Len(s) - Len(sub)) : SubSeq(s, i + 1, i + Len(sub)) = sub

PaymentNameOf(cleaned, name) ==
    IF cleaned \in CreditAliases THEN TarjetaDeCredito
    ELSE IF cleaned \in DebitAliases THEN TarjetaDeDebito
    ELSE IF Contains(Lower(Transferencia), cleaned) THEN Transferencia
    ELSE name

_normalize_payment_method(name) ==
    IF ~Truthy(name) THEN Efectivo ELSE PaymentNameOf(Strip(Lower(name.s)), name.s)

\* The index of the first record of the table that a query with the test
\* Hit returns, 0 when there is none.
FirstIndex(table, Hit(_)) ==
    IF \E i \in DOMAIN table : Hit(table[i])
    THEN CHOOSE i \in DOMAIN table :
            Hit(table[i]) /\ \A j \in 1..(i - 1) : ~Hit(table[j])
    ELSE 0

\* The three lookups of _get_or_create, in their order: lower(nombre), the
\* normalized name, a similarity of 0.9 or more.
OldRecord(table, name) ==
    IF FirstIndex(table, LAMBDA r : Lower(r) = Lower(name)) # 0
    THEN FirstIndex(table, LAMBDA r : Lower(r) = Lower(name))
    ELSE IF FirstIndex(table, LAMBDA r : normalize_string(r) = normalize_string(name)) # 0
    THEN FirstIndex(table, LAMBDA r : normalize_string(r) = normalize_string(name))
    ELSE FirstIndex(table, LAMBDA r : is_close_match(name, r, <<9, 10>>))

\* What _get_or_create gives: the table after it and the record, <<>> for
\* None.
Got(table, record, created) == [table |-> table, record |-> record, created |-> created]

_get_or_create(table, name) ==
    IF ~Truthy(name) THEN Got(table, <<>>, FALSE)
    ELSE IF OldRecord(table, name.s) # 0
    THEN Got(table, <<table[OldRecord(table, name.s)]>>, FALSE)
    ELSE Got(Append(table, name.s), <<name.s>>, TRUE)

OrName(name, default) == IF Truthy(name) THEN name ELSE Str(default)

\* What a call of register_purchase or register_expense gives: the tables
\* after it, and the records the Gasto refers to when it was written.
Registered(tables, provider, payment, product, category) ==
    [ok |-> TRUE, tables |-> tables, provider |-> provider, payment |-> payment,
     product |-> product, category |-> category]

Failed(tables) ==
    [ok |-> FALSE, tables |-> tables, provider |-> <<>>, payment |-> <<>>,
     product |-> <<>>, category |-> <<>>]

\* The product of the purchase: the record whose lower(nombre) is that of
\* the typed name, or a new record of the typed name in the category
\* 'Insumos'.
ProductOf(productos, categorias, product_name) ==
    IF FirstIndex(productos, LAMBDA r : Lower(r) = Lower(product_name)) # 0
    THEN [productos |-> productos, categorias |-> categorias,
          record |-> <<productos[FirstIndex(productos,
                          LAMBDA r : Lower(r) = Lower(product_name))]>>]
    ELSE [productos |-> Append(productos, product_name),
          categorias |-> _get_or_create(categorias, Str(Insumos)).table,
          record |-> <<product_name>>]

PurchaseWith(tables, provider, payment, product, tipo) ==
    Registered([proveedores |-> provider.table, metodos_pago |-> payment.table,
                categorias |-> product.categorias, productos |-> product.productos,
                tipos_gasto |-> tipo.table],
               provider.record, payment.record, product.record, <<>>)

\* register_purchase: an exception (a product_name that is None, a commit
\* that fails) rolls the session back.
register_purchase_entities(tables, product_name, provider_name, payment_method_name, db_ok) ==
    IF product_name.t # "str" \/ ~db_ok THEN Failed(tables)
    ELSE PurchaseWith(tables,
            _get_or_create(tables.proveedores, OrName(provider_name, Desconocido)),
            _get_or_create(tables.metodos_pago,
                           Str(_normalize_payment_method(payment_method_name))),
            ProductOf(tables.productos, tables.categorias, product_name.s),
            _get_or_create(tables.tipos_gasto, Str(Variable)))

ExpenseWith(tables, provider, payment, category, tipo) ==
    Registered([proveedores |-> provider.table, metodos_pago |-> payment.table,
                categorias |-> category.table, productos |-> tables.productos,
                tipos_gasto |-> tipo.table],
               provider.record, payment.record, <<>>, category.record)

register_expense_entities(tables, category_name, provider_name, payment_method_name, db_ok) ==
    IF ~db_ok THEN Failed(tables)
    ELSE ExpenseWith(tables,
            _get_or_create(tables.proveedores, OrName(provider_name, Desconocido)),
            _get_or_create(tables.metodos_pago,
                           Str(_normalize_payment_method(payment_method_name))),
            _get_or_create(tables.categorias, OrName(category_name, General)),
            _get_or_create(tables.tipos_gasto, Str(Fijo)))

(***************************************************************************)
(* The database behind FinanceService: the tables of the entities, the     *)
(* rows of gastos and the rows of inventario.  A fault names the step of a *)
(* call that raises: "none", "commit" (a query, a flush or the commit) or  *)
(* "refresh" (session.refresh, after the commit).                          *)
(***************************************************************************)
Faults == {"none", "commit", "refresh"}

\* A row of gastos (models.py:115-139); a reference is <<>> for NULL or the
\* record it names.
Gasto(monto, proveedor, metodo_pago, producto, cantidad_comprada, tipo_gasto, categoria) ==
    [monto |-> monto, proveedor |-> proveedor, metodo_pago |-> metodo_pago,
     producto |-> producto, cantidad_comprada |-> cantidad_comprada,
     tipo_gasto |-> tipo_gasto, categoria |-> categoria]

\* The stock trigger of gastos: a row with a product and a quantity raises
\* that product's row of inventario, which it creates when there is none.
StockRow(inventario, producto) ==
    FirstIndex(inventario, LAMBDA r : r.producto = producto)

InventoryTrigger(inventario, gasto) ==
    IF gasto.producto = <<>> \/ gasto.cantidad_comprada.t # "num" THEN inventario
    ELSE IF StockRow(inventario, gasto.producto[1]) # 0
    THEN [inventario EXCEPT ![StockRow(inventario, gasto.producto[1])].cantidad_actual =
                                @ + gasto.cantidad_comprada.n]
    ELSE Append(inventario, [producto |-> gasto.producto[1],
                             cantidad_actual |-> gasto.cantidad_comprada.n])

\* What a call gives: the Gasto it returns (<<>> for None) and the database
\* after it.
Returned(returned, db) == [returned |-> returned, db |-> db]

\* The exception of a step rolls the session back (db.py:82-88).
RolledBack(db) == Returned(<<>>, db)

\* session.add(gasto); session.commit(); session.refresh(gasto): monto is
\* NOT NULL (models.py:120), and what refresh raises comes after the commit.
Committed(db, gave, gasto, fault) ==
    IF gasto.monto.t # "num" THEN RolledBack(db)
    ELSE Returned(IF fault = "refresh" THEN <<>> ELSE <<gasto>>,
                  [tables |-> gave.tables, gastos |-> Append(db.gastos, gasto),
                   inventario |-> InventoryTrigger(db.inventario, gasto)])

PurchaseGasto(gave, quantity, cost, tipo_gasto, categoria) ==
    Gasto(cost, gave.provider, gave.payment, gave.product, quantity, tipo_gasto, categoria)

PurchaseOf(db, gave, quantity, cost, fault) ==
    IF ~gave.ok THEN RolledBack(db)
    ELSE Committed(db, gave,
            PurchaseGasto(gave, quantity, cost,
                          _get_or_create(db.tables.tipos_gasto, Str(Variable)).record,
                          _get_or_create(gave.tables.categorias, Str(Insumos)).record),
            fault)

\* FinanceService.register_purchase; the unit only names the unidad_medida
\* of a new product.
FinanceService_register_purchase(db, product_name, quantity, cost, provider_name, payment_method_name, fault) ==
    PurchaseOf(db, register_purchase_entities(db.tables, product_name, provider_name,
                                              payment_method_name, fault # "commit"),
               quantity, cost, fault)

\* A Gasto of register_expense that names the first product of the
\* catalogue and a quantity.
ExpenseGastoOfProduct(gave, cost, tipo_gasto) ==
    Gasto(cost, gave.provider, gave.payment,
          IF gave.tables.productos = <<>> THEN <<>> ELSE <<gave.tables.productos[1]>>,
          Num(1), tipo_gasto, gave.category)

ExpenseGasto(gave, cost, tipo_gasto) ==
    Gasto(cost, gave.provider, gave.payment, <<>>, None, tipo_gasto, gave.category)

ExpenseOf(db, gave, cost, fault) ==
    IF ~gave.ok THEN RolledBack(db)
    ELSE Committed(db, gave,
            ExpenseGasto(gave, cost,
                         _get_or_create(db.tables.tipos_gasto, Str(Fijo)).record),
            fault)

\* FinanceService.register_expense
FinanceService_register_expense(db, category_name, cost, provider_name, payment_method_name, fault) ==
    ExpenseOf(db, register_expense_entities(db.tables, category_name, provider_name,
                                            payment_method_name, fault # "commit"),
              cost, fault)

(***************************************************************************)
(* NLPService.normalize_unit (nlp_service.py).  A unit is its sequence of  *)
(* characters, a quantity the fraction <<numerator, denominator>> of the   *)
(* typed number.                                                           *)
(***************************************************************************)
GramTokens ==
    {<<"g">>, <<"g", "r", "a", "m">>, <<"g", "r", "a", "m", "s">>,
     <<"g", "r", "a", "m", "o">>, <<"g", "r", "a", "m", "o", "s">>}

KilogramTokens ==
    {<<"k", "g">>, <<"k", "i", "l", "o", "g", "r", "a", "m">>,
     <<"k", "i", "l", "o", "g", "r", "a", "m", "s">>, <<"k", "i", "l", "o">>,
     <<"k", "i", "l", "o", "s">>,
     <<"k", "i", "l", "o", "g", "r", "a", "m", "o">>,
     <<"k", "i", "l", "o", "g", "r", "a", "m", "o", "s">>}

MilliliterTokens ==
    {<<"m", "l">>, <<"m", "i", "l", "l", "i", "l", "i", "t", "e", "r">>,
     <<"m", "i", "l", "l", "i", "l", "i", "t", "e", "r", "s">>,
     <<"m", "i", "l", "i", "l", "i", "t", "r", "o">>,
     <<"m", "i", "l", "i", "l", "i", "t", "r", "o", "s">>}

LiterTokens ==
    {<<"l">>, <<"l", "i", "t", "e", "r">>, <<"l", "i", "t", "e", "r", "s">>,
     <<"l", "i", "t", "r", "e">>, <<"l", "i", "t", "r", "e", "s">>,
     <<"l", "i", "t", "r", "o">>, <<"l", "i", "t", "r", "o", "s">>}

CountTokens ==
    {<<"p", "c", "s">>, <<"p", "i", "e", "c", "e", "s">>,
     <<"p", "i", "e", "c", "e">>, <<"p", "c">>, <<"u", "n", "i", "t", "s">>,
     <<"u", "n", "i", "t">>, <<"p", "i", "e", "z", "a">>,
     <<"p", "i", "e", "z", "a", "s">>, <<"u", "n", "i", "d", "a", "d">>,
     <<"u", "n", "i", "d", "a", "d", "e", "s">>}

Kg == <<"k", "g">>
Liters == <<"l", "i", "t", "e", "r", "s">>
Pcs == <<"p", "c", "s">>

\* normalize_unit once the unit is lowered and stripped.
NormalizedAs(unit, quantity) ==
    IF unit \in GramTokens THEN <<<<quantity, 1000>>, Kg>>
    ELSE IF unit \in KilogramTokens THEN <<<<quantity, 1>>, Kg>>
    ELSE IF unit \in MilliliterTokens THEN <<<<quantity, 1000>>, Liters>>
    ELSE IF unit \in LiterTokens THEN <<<<quantity, 1>>, Liters>>
    ELSE IF unit \in CountTokens THEN <<<<quantity, 1>>, Pcs>>
    ELSE <<<<quantity, 1>>, unit>>

\* normalize_unit: <<quantity, unit>>.
normalize_unit(unit, quantity) ==
    IF ~Truthy(unit) THEN <<<<quantity, 1>>, Pcs>>
    ELSE NormalizedAs(Strip(Lower(unit.s)), quantity)

(***************************************************************************)
(* The intent extraction oracle (NLPService).  A reply of the oracle is    *)
(* [ok, action, confidence, fields]: ok = FALSE is a reply that cannot be  *)
(* parsed or a call that failed.                                           *)
(***************************************************************************)
NoFields == [i \in {} |-> None]

\* The parse whose fallback action is one the oracle is sure of.
ParseFallbackConfident(reply) ==
    IF reply.ok
    THEN [action |-> reply.action, confidence |-> reply.confidence,
          fields |-> reply.fields]
    ELSE [action |-> "unknown", confidence |-> Num(100), fields |-> NoFields]

\* parse_inventory_message: the parsed action, or the fallback action.
parse_inventory_message(reply) ==
    IF reply.ok
    THEN [action |-> reply.action, confidence |-> reply.confidence,
          fields |-> reply.fields]
    ELSE [action |-> "unknown", confidence |-> Num(0), fields |-> NoFields]

\* parse_multiple_ingredients_message: [actions, overall_confidence].
\* how = "ok" | "json" (the reply is no JSON: fall back to the single
\* parse) | "error" (any other failure).
SingleAsMulti(single) ==
    [actions |-> <<[action |-> single.action,
                    ingredient_name |-> DictGet(single.fields, "ingredient_name"),
                    quantity |-> DictGet(single.fields, "quantity"),
                    unit |-> DictGet(single.fields, "unit")]>>,
     overall_confidence |-> single.confidence]

parse_multiple_ingredients_message(how, multi, reply) ==
    CASE how = "ok" -> multi
      [] how = "json" -> SingleAsMulti(parse_inventory_message(reply))
      [] OTHER ->
            [actions |-> <<[action |-> "unknown", ingredient_name |-> Str(<<>>),
                            quantity |-> None, unit |-> None]>>,
             overall_confidence |-> Num(0)]

(***************************************************************************)
(* SmartInventoryService: the orchestrator.  A result is                   *)
(* [success, response, new_pending, raised, inventory, gastos, wrote,      *)
(*  exec]: new_pending and exec (the action handed to execution) are       *)
(* optional, raised tells that the call raised instead of returning.       *)
(***************************************************************************)
MinConfidence == 60   \* 0.6, confidences are counted in hundredths

TxtRephrase == Str(<<"No estoy seguro de lo que quisiste decir">>)
TxtNotUnderstood == Str(<<"No pude entender que accion de inventario quieres realizar">>)
TxtNotSure == Str(<<"no estoy seguro de que accion tomar">>)
TxtError == Str(<<"Lo siento, encontre un error al procesar tu solicitud">>)
TxtMultiError ==
    Str(<<"Lo siento, encontre un error al procesar multiples ingredientes">>)
TxtNoIngredient == Str(<<"No pude identificar ningun ingrediente en tu mensaje">>)
TxtRegistered == Str(<<"registrada con exito">>)
TxtNotRegistered == Str(<<"No se pudo registrar">>)

Result(success, response, new_pending, inv, g, wrote, exec) ==
    [success |-> success, response |-> response, new_pending |-> new_pending,
     raised |-> FALSE, inventory |-> inv, gastos |-> g, wrote |-> wrote,
     exec |-> exec]

NoWrite(success, response, inv, g) ==
    Result(success, response, <<>>, inv, g, FALSE, <<>>)

\* The confidence test that also rejects the threshold itself.
LowConfidenceInclusive(confidence) == confidence.n <= MinConfidence

LowConfidence(confidence) == confidence.n < MinConfidence

\* The result of an executed action p: db is what the mutation did.
Executed(p, db) ==
    Result(db.ok, IF db.ok THEN TxtRegistered ELSE TxtNotRegistered, <<>>,
           db.inventory, db.gastos, db.ok, <<p>>)

\* Execution dispatch of a register_* action whose fields are p's.
ExecuteAction(p, inv, g, db_ok) ==
    Executed(p,
        CASE ActionOf(p) = "register_purchase" ->
                register_purchase(inv, g, p.ingredient_name, p.quantity, p.cost, db_ok)
          [] ActionOf(p) = "register_expense" ->
                register_expense(inv, g, p.cost, db_ok)
          [] OTHER ->
                register_usage(inv, g, p.ingredient_name, p.quantity, db_ok))

\* A register_* action that lacks fields is never executed: it is returned
\* as a PendingAction with the prompt for the fields.
PromptFor(p, prompt_success, inv, g) ==
    Result(prompt_success, Str(format_missing_fields_prompt(p.missing_fields.l)),
           <<p>>, inv, g, FALSE, <<>>)

SlotFilling(p, prompt_success, inv, g, db_ok) ==
    IF p.missing_fields.l # <<>>
    THEN PromptFor(p, prompt_success, inv, g)
    ELSE ExecuteAction(p, inv, g, db_ok)


\* smart_inventory_service.py:129-133: normalize_unit is called, outside the
\* try of the dispatch, for an action whose quantity and unit are truthy;
\* it raises for a unit that is no text (unit.lower()) and for a quantity
\* that is no number in grams or millilitres (quantity / 1000).
NormalizeRaises(a) ==
    /\ a.action # "unknown" /\ Truthy(a.ingredient_name)
    /\ Truthy(a.quantity) /\ Truthy(a.unit)
    /\ \/ a.unit.t # "str"
       \/ /\ a.quantity.t # "num"
          /\ Strip(Lower(a.unit.s)) \in GramTokens \cup MilliliterTokens

\* The dispatch of an inventory action a to its handler, in the loop of
\* _process_multiple_ingredients_command and for a single action.  The
\* units of the drawn actions that reach it are normalised ones, which
\* normalize_unit leaves as they are.
RunOne(a, inv, db_ok) ==
    IF a.action = "unknown" \/ ~Truthy(a.ingredient_name)
    THEN HResult(FALSE, "No pude entender la accion", inv)
    ELSE CASE a.action = "add_quantity" ->
                _handle_add_quantity(inv, a.ingredient_name, a.quantity, a.unit, db_ok)
           [] a.action = "add_new" ->
                _handle_add_new(inv, a.ingredient_name, a.quantity, a.unit, db_ok)
           [] a.action = "remove_quantity" ->
                _handle_remove_quantity(inv, a.ingredient_name, a.quantity, a.unit, db_ok)
           [] a.action = "update_quantity" ->
                _handle_update_quantity(inv, a.ingredient_name, a.quantity, a.unit, db_ok)
           [] a.action = "check_stock" ->
                _handle_check_stock(inv, a.ingredient_name, db_ok)
           [] OTHER -> HResult(FALSE, "Accion desconocida", inv)

\* The results list and the success count after the action a gave h and
\* the following actions gave rest.
Tally(a, h, rest) ==
    [inventory |-> rest.inventory,
     results |-> <<h.text>> \o rest.results,
     success_count |-> (IF h.success THEN 1 ELSE 0) + rest.success_count,
     wrote |-> rest.wrote \/ (h.success /\ a.action # "check_stock"),
     raised |-> rest.raised]

\* The loop over the parsed actions: [inventory, results, success_count,
\* wrote, raised]; raised tells that the loop ended in an exception, which
\* the outer except takes (smart_inventory_service.py:170-172).
RECURSIVE RunActions(_, _, _)
RunFollowing(a, h, actions, db_ok) ==
    Tally(a, h, RunActions(Tail(actions), h.inventory, db_ok))

RunActions(actions, inv, db_ok) ==
    IF actions = <<>>
    THEN [inventory |-> inv, results |-> <<>>, success_count |-> 0, wrote |-> FALSE,
          raised |-> FALSE]
    ELSE IF NormalizeRaises(Head(actions))
    THEN [inventory |-> inv, results |-> <<>>, success_count |-> 0, wrote |-> FALSE,
          raised |-> TRUE]
    ELSE RunFollowing(Head(actions), RunOne(Head(actions), inv, db_ok), actions, db_ok)

\* The summary of a multi-ingredient command whose actions gave run.
MultiSummary(total, run, g) ==
    IF run.raised
    THEN Result(FALSE, TxtMultiError, <<>>, run.inventory, g, run.wrote, <<>>)
    ELSE
    Result(run.success_count > 0,
           Str(<<IF run.success_count = total THEN "Procesados exitosamente"
                 ELSE IF run.success_count > 0 THEN "Procesados algunos"
                 ELSE "No se pudo procesar ningun ingrediente">> \o run.results),
           <<>>, run.inventory, g, run.wrote, <<>>)

\* _process_multiple_ingredients_command on the parsed m.
ProcessMultiple(m, db_ok, inv, g) ==
    IF m.overall_confidence.t # "num" THEN NoWrite(FALSE, TxtError, inv, g)
    ELSE IF LowConfidence(m.overall_confidence)
    THEN NoWrite(FALSE, TxtRephrase, inv, g)
    ELSE IF m.actions = <<>> THEN NoWrite(FALSE, TxtNoIngredient, inv, g)
    ELSE MultiSummary(Len(m.actions), RunActions(m.actions, inv, db_ok), g)

_process_multiple_ingredients_command(text, e, inv, g) ==
    ProcessMultiple(parse_multiple_ingredients_message(e.how, e.multi, e.reply),
                    e.db_ok, inv, g)

InventoryKinds ==
    {"add_quantity", "add_new", "remove_quantity", "update_quantity", "check_stock"}

\* The result of a single inventory action a whose handler gave h.
InventoryAnswer(a, h, g) ==
    Result(h.success, Str(<<h.text>>), <<>>, h.inventory, g,
           h.success /\ a.action # "check_stock", <<>>)

\* The action of a single message as the handlers take it.
AsInventoryAction(a) ==
    [action |-> a.action, ingredient_name |-> DictGet(a.fields, "ingredient_name"),
     quantity |-> DictGet(a.fields, "quantity"), unit |-> DictGet(a.fields, "unit")]

\* A fresh message whose single action a the oracle parsed.
ProcessAction(a, text, e, inv, g) ==
    IF a.confidence.t # "num" THEN NoWrite(FALSE, TxtError, inv, g)
    ELSE IF LowConfidence(a.confidence) THEN NoWrite(FALSE, TxtRephrase, inv, g)
    ELSE IF a.action = "unknown" THEN NoWrite(FALSE, TxtNotUnderstood, inv, g)
    ELSE IF a.action \in RegisterKinds
    THEN SlotFilling(
            NewPendingAction(a.action, text, a.fields,
                             List(check_missing_fields(a.action, a.fields))),
            e.prompt_success, inv, g, e.db_ok)
    ELSE IF a.action = "finance_report" THEN NoWrite(TRUE, e.answer, inv, g)
    ELSE IF ~Truthy(DictGet(a.fields, "ingredient_name"))
    THEN NoWrite(FALSE, TxtNotUnderstood, inv, g)
    ELSE IF a.action \in InventoryKinds
    THEN InventoryAnswer(a, RunOne(AsInventoryAction(a), inv, e.db_ok), g)
    ELSE NoWrite(FALSE, TxtNotSure, inv, g)

\* A fresh message that names one action.
ProcessSingle(text, e, inv, g) ==
    ProcessAction(parse_inventory_message(e.reply), text, e, inv, g)

\* A message that answers the prompt of a pending action: the supplement
\* extracted for the missing fields is merged into it.
ProcessSupplemental(text, pending_action, e, inv, g) ==
    SlotFilling(merge_with_supplement(pending_action, e.supplement),
                e.prompt_success, inv, g, e.db_ok)

\* The body of process_natural_language_command's try block.
ProcessBody(text, multi, pending, e, inv, g) ==
    IF pending # <<>> THEN ProcessSupplemental(text, pending[1], e, inv, g)
    ELSE IF multi THEN _process_multiple_ingredients_command(text, e, inv, g)
    ELSE ProcessSingle(text, e, inv, g)

\* e.fault: an exception raised inside the try block before anything is
\* written (the oracle call of the supplemental extraction fails, ...).
process_natural_language_command(text, multi, pending, e, inv, g) ==
    IF e.fault THEN NoWrite(FALSE, TxtError, inv, g)
    ELSE ProcessBody(text, multi, pending, e, inv, g)


(***************************************************************************)
(* handlers.py: handle_response and handle_message.  A message is          *)
(* [message_type, mentions_bot, basic, multi, text]: basic names the       *)
(* keyword family its text contains ("none" when it contains none), multi  *)
(* tells whether _contains_multiple_ingredients holds of it.  The rows of  *)
(* the message log (UserMessage, BotReply) are not kept.                   *)
(***************************************************************************)
AllUsers == {"u1", "u2"}

TxtFallback == Str(<<"No estoy seguro de como ayudar con eso">>)
TxtHandlerError == Str(<<"Lo siento, encontre un error al procesar tu solicitud de inventario.">>)
TxtApology == Str(<<"Lo siento, encontre un error al procesar tu mensaje.">>)

handle_response(m) ==
    CASE m.basic = "greeting" -> Str(<<"Hola! Soy un bot de gestion de inventario">>)
      [] m.basic = "how_are_you" -> Str(<<"Solo soy un bot">>)
      [] m.basic = "goodbye" -> Str(<<"Hasta luego!">>)
      [] OTHER -> None

\* The storing of the new pending action without the setting of a state.
StoreWithoutState(ud, new_pending) == set_pending_action(ud, new_pending)

\* handlers.py:149-160: store the new pending action and set the state of
\* its kind.
StoreAwaiting(ud, new_pending) ==
    LET stored == set_pending_action(ud, new_pending)
        kind == ActionOf(new_pending)
    IN CASE kind = "register_purchase" -> set_state(stored, "awaiting_purchase_details")
         [] kind = "register_expense" -> set_state(stored, "awaiting_expense_details")
         [] kind = "register_usage" -> set_state(stored, "awaiting_usage_details")
         [] OTHER -> stored

\* handlers.py:161-164 without the clearing of a completed pending action.
AfterProcessKeeps(ud, pending_action, r) ==
    IF r.raised THEN clear_pending_action(ud)
    ELSE IF r.new_pending # <<>> THEN StoreAwaiting(ud, r.new_pending[1])
    ELSE ud

\* handlers.py:146-170: the user's data after the orchestrator's call.
AfterProcess(ud, pending_action, r) ==
    IF r.raised THEN clear_pending_action(ud)
    ELSE IF r.new_pending # <<>> THEN StoreAwaiting(ud, r.new_pending[1])
    ELSE IF pending_action # <<>> THEN clear_pending_action(ud)
    ELSE ud

NoCall ==
    [user |-> "", route |-> "none", multi |-> FALSE, supplemental |-> FALSE,
     missing_in |-> 0, filled |-> 0, fault |-> FALSE, parsed |-> <<>>,
     success |-> FALSE, response |-> None, new_pending |-> <<>>, raised |-> FALSE,
     wrote |-> FALSE, changed |-> FALSE, exec |-> <<>>, replied |-> None,
     escaped |-> FALSE, message |-> "none"]

\* What last keeps of the message: "unmentioned" for a group message that
\* does not mention the bot, else the keyword family of its text.
Heard(m) ==
    IF m.message_type = "group" /\ ~m.mentions_bot THEN "unmentioned" ELSE m.basic

\* The number of the pending action's missing fields the supplement tells.
Filled(pending_action, supplement) ==
    Cardinality({i \in 1..Len(supplement) :
                    /\ supplement[i][2] # None
                    /\ supplement[i][1] \in Range(pending_action.missing_fields.l)})

\* What the oracle parsed of a fresh message, as last keeps it.
ParsedOf(m, e) ==
    IF m.multi
    THEN [ok |-> e.how = "ok" \/ (e.how = "json" /\ e.reply.ok), action |-> "multi",
          confidence |-> parse_multiple_ingredients_message(
                            e.how, e.multi, e.reply).overall_confidence,
          fields |-> NoFields]
    ELSE [ok |-> e.reply.ok] @@ parse_inventory_message(e.reply)

\* What last records of a call of the orchestrator: what it was given
\* (supplemental: a pending action was passed in, with missing_in missing
\* fields of which the supplement tells filled; fault: the call fails),
\* what it returned and whether the stock or the expenses changed.
CallRecord(u, m, pending_action, e, r) ==
    [user |-> u, route |-> "nlp", multi |-> m.multi /\ pending_action = <<>>,
     supplemental |-> pending_action # <<>>,
     missing_in |-> IF pending_action # <<>>
                    THEN Len(pending_action[1].missing_fields.l) ELSE 0,
     filled |-> IF pending_action # <<>> /\ ~e.fault
                THEN Filled(pending_action[1], e.supplement) ELSE 0,
     fault |-> e.fault,
     parsed |-> IF pending_action = <<>> /\ ~e.fault THEN <<ParsedOf(m, e)>> ELSE <<>>,
     success |-> r.success, response |-> r.response, new_pending |-> r.new_pending,
     raised |-> r.raised, wrote |-> r.wrote,
     changed |-> r.inventory # inventory \/ r.gastos # gastos,
     exec |-> r.exec, replied |-> None, escaped |-> FALSE, message |-> Heard(m)]

\* handlers.py:172-200: the fallback, the reply and the outer except.  ud,
\* inv and g are the state after the routing, record what last keeps.
\* e.send = "ok": the reply is sent; "rejected": reply_text raises for the
\* reply (its Markdown cannot be parsed) and the apology of the outer
\* except is sent; "down": reply_text raises for the apology as well, and
\* the handler ends by raising before it clears the pending action.
SendReply(u, e, ud, final, record, inv, g) ==
    /\ user_data' = [user_data EXCEPT
                        ![u] = IF Truthy(final) /\ e.send = "rejected"
                               THEN clear_pending_action(ud) ELSE ud]
    /\ inventory' = inv
    /\ gastos' = g
    /\ last' = [record EXCEPT
                    !.replied = IF ~Truthy(final) \/ e.send = "down" THEN None
                                ELSE IF e.send = "ok" THEN final ELSE TxtApology,
                    !.escaped = Truthy(final) /\ e.send = "down"]
    /\ UNCHANGED smart_inventory

OrFallback(response) == IF response.t = "none" THEN TxtFallback ELSE response

\* handlers.py:146-170: after the orchestrator returned (or raised) r.
AfterCall(u, m, e, pending_action, r) ==
    /\ \A p \in Products : r.inventory[p] <= MaxStock
    /\ r.gastos <= MaxGastos
    /\ SendReply(u, e, AfterProcess(user_data[u], pending_action, r),
                 OrFallback(IF r.raised THEN TxtHandlerError ELSE r.response),
                 CallRecord(u, m, pending_action, e, r), r.inventory, r.gastos)

\* handlers.py:135-144: the call of the orchestrator.
CallOrchestrator(u, m, e, pending_action) ==
    AfterCall(u, m, e, pending_action,
              process_natural_language_command(m.text, m.multi, pending_action, e,
                                               inventory, gastos))

\* The routing with one pending action kept for the whole bot instead of one
\* per user.
RouteMessageShared(u, m, e, basic) ==
    IF basic.t = "none" /\ smart_inventory
    THEN CallOrchestrator(u, m, e, get_pending_action(user_data["u1"]))
    ELSE SendReply(u, e, user_data[u], OrFallback(basic),
                   [NoCall EXCEPT !.user = u, !.message = Heard(m),
                                  !.route = IF basic.t = "none" THEN "fallback"
                                            ELSE "basic"],
                   inventory, gastos)

\* The routing that hands every message to the orchestrator, whatever
\* handle_response answered.
RouteMessageAlways(u, m, e, basic) ==
    IF smart_inventory
    THEN CallOrchestrator(u, m, e, get_pending_action(user_data[u]))
    ELSE SendReply(u, e, user_data[u], OrFallback(basic),
                   [NoCall EXCEPT !.user = u, !.message = Heard(m),
                                  !.route = IF basic.t = "none" THEN "fallback"
                                            ELSE "basic"],
                   inventory, gastos)

\* handlers.py:131-178 for a message that is not ignored, basic being what
\* handle_response answered.
RouteMessage(u, m, e, basic) ==
    IF basic.t = "none" /\ smart_inventory
    THEN CallOrchestrator(u, m, e, get_pending_action(user_data[u]))
    ELSE SendReply(u, e, user_data[u], OrFallback(basic),
                   [NoCall EXCEPT !.user = u, !.message = Heard(m),
                                  !.route = IF basic.t = "none" THEN "fallback"
                                            ELSE "basic"],
                   inventory, gastos)

\* handle_message for the message m of user u, in the environment e: the
\* oracle's replies, the outcome of the database and of the transport.
handle_message(u, m, e) ==
    IF m.message_type = "group" /\ ~m.mentions_bot
    THEN /\ last' = [NoCall EXCEPT !.user = u, !.route = "ignored",
                                   !.message = Heard(m)]
         /\ UNCHANGED <<smart_inventory, user_data, inventory, gastos>>
    ELSE RouteMessage(u, m, e, handle_response(m))


(***************************************************************************)
(* The environment: the messages users send and what the oracle, the       *)
(* database and the transport answer.                                      *)
(***************************************************************************)
MaxActions == 1  \* actions parsed from one multi-ingredient message

Msg(message_type, mentions_bot, basic, multi) ==
    [message_type |-> message_type, mentions_bot |-> mentions_bot,
     basic |-> basic, multi |-> multi, text |-> "m"]

\* The chats whose messages are handled: a private chat, a group message
\* that mentions the bot.
HandledChats == {<<"private", FALSE>>, <<"group", TRUE>>}

\* What the oracle extracts for a field the message does not tell: null,
\* or for the provider an empty text.
ConvHoleValues(f) == IF f = "provider" THEN {None, Str(<<>>)} ELSE {None}

\* The fields a message may leave untold; it always tells what was bought,
\* used or paid for.
OmittableFields == {"quantity", "cost", "provider", "payment_method"}

\* What a supplement holds for a requested field.
SupplementValues(f) == ConvHoleValues(f) \cup {GoodValue(f)}

SendModes == {"ok", "rejected", "down"}

\* (the database works, what the transport does): at most one of them fails.
Outcomes == {<<TRUE, "ok">>, <<FALSE, "ok">>, <<TRUE, "rejected">>, <<TRUE, "down">>}

\* The field maps the oracle extracts for an action of a kind: the required
\* fields filled, but for at most MaxHoles of them.
FreshDicts(kind) ==
    LET required == Range(get_required_fields(kind))
    IN UNION {{[f \in Range(DataFields) |->
                    IF f \in holes THEN h[f]
                    ELSE IF f \in required THEN GoodValue(f) ELSE None] :
                h \in {x \in [holes -> {None, Str(<<>>)}] :
                            \A f \in holes : x[f] \in ConvHoleValues(f)}} :
              holes \in {x \in SUBSET (required \cap OmittableFields) :
                            Cardinality(x) <= MaxHoles}}

Reply(ok, action, confidence, fields) ==
    [ok |-> ok, action |-> action, confidence |-> confidence, fields |-> fields]

BadReply == Reply(FALSE, "unknown", Num(0), NoFields)

RegisterReplies ==
    UNION {{Reply(TRUE, kind, Num(MinConfidence), d) : d \in FreshDicts(kind)} :
           kind \in RegisterKinds}

\* Replies that name no action to execute, or one the oracle is unsure of.
UnclearReplies ==
    {BadReply}
    \cup {Reply(TRUE, kind, c, [f \in Range(DataFields) |->
                                    IF f = "ingredient_name" /\ kind = "dance"
                                    THEN Str(<<"a">>) ELSE None]) :
            kind \in {"unknown", "dance", "add_quantity"},
            c \in {Num(59), Num(MinConfidence)}}
    \cup {Reply(TRUE, kind, c, [f \in Range(DataFields) |->
                                    IF f \in Range(get_required_fields(kind))
                                    THEN GoodValue(f) ELSE None]) :
            kind \in RegisterKinds, c \in {None, Num(0), Num(59)}}

QueryReplies ==
    {Reply(TRUE, kind, Num(90),
           [f \in Range(DataFields) |->
                CASE f = "ingredient_name" -> Str(<<"a">>)
                  [] f = "quantity" -> Num(1)
                  [] f = "unit" -> Str(<<"kg">>)
                  [] OTHER -> None]) :
        kind \in {"check_stock", "finance_report", "add_quantity", "remove_quantity"}}

MultiAction(action, name) ==
    [action |-> action, ingredient_name |-> name, quantity |-> Num(1),
     unit |-> Str(<<"kg">>)]

MultiActionChoices ==
    {MultiAction("add_quantity", Str(<<"a">>)),
     MultiAction("remove_quantity", Str(<<"a">>)),
     MultiAction("update_quantity", Str(<<"a">>)),
     MultiAction("add_new", Str(<<"a">>)),
     MultiAction("check_stock", Str(<<"a">>)),
     MultiAction("unknown", Str(<<>>))}

\* The oracle is confident of every list of actions, and unsure of some.
NoMulti == [actions |-> <<>>, overall_confidence |-> Num(0)]

MultiReplies ==
    {NoMulti}
    \cup {[actions |-> as, overall_confidence |-> Num(MinConfidence)] :
        as \in UNION {[1..n -> MultiActionChoices] : n \in 0..MaxActions}}
    \cup {[actions |-> <<a>>, overall_confidence |-> Num(59)] :
            a \in {MultiAction("add_quantity", Str(<<"a">>)),
                   MultiAction("remove_quantity", Str(<<"a">>))}}

\* The single-action replies a multi-ingredient message falls back to.
FallbackReplies ==
    {BadReply,
     Reply(TRUE, "add_quantity", Num(MinConfidence),
           [f \in Range(DataFields) |-> GoodValue(f)]),
     Reply(TRUE, "add_quantity", Num(59),
           [f \in Range(DataFields) |-> GoodValue(f)])}

\* The supplements the oracle extracts for the requested fields.
Supplements(requested) ==
    {[i \in 1..Len(requested) |-> <<requested[i], v[i]>>] :
        v \in {x \in [1..Len(requested) -> {None, Num(1), Str(<<>>), Str(<<"a">>)}] :
                \A i \in 1..Len(requested) :
                    x[i] \in SupplementValues(requested[i])}}

BaseEnv ==
    [reply |-> BadReply, how |-> "ok", multi |-> NoMulti, supplement |-> <<>>,
     fault |-> FALSE, answer |-> Str(<<"respuesta">>), db_ok |-> TRUE,
     prompt_success |-> TRUE, send |-> "ok"]

(***************************************************************************)
(* The conversation: one action per kind of message, each the whole        *)
(* handle_message.                                                         *)
(***************************************************************************)
InitConv ==
    /\ smart_inventory \in BOOLEAN
    /\ user_data = [u \in AllUsers |-> EmptyUserData]
    /\ inventory = [p \in Products |-> NoRow]
    /\ gastos = 0
    /\ last = NoCall

NoPending(u) == get_pending_action(user_data[u]) = <<>>

GroupMessageIgnored(u) ==
    \E basic \in {"none", "greeting"} :
        /\ handle_message(u, Msg("group", FALSE, basic, FALSE), BaseEnv)
        /\ UNCHANGED slot_vars

BasicMessage(u) ==
    \E basic \in {"greeting", "how_are_you", "goodbye"}, chat \in HandledChats,
       send \in SendModes :
        /\ basic # "greeting" => chat[1] = "private" /\ send = "ok"
        /\ handle_message(u, Msg(chat[1], chat[2], basic, FALSE),
                          [BaseEnv EXCEPT !.send = send])
        /\ UNCHANGED slot_vars

FallbackMessage(u) ==
    /\ ~smart_inventory
    /\ \E chat \in HandledChats, send \in SendModes :
        handle_message(u, Msg(chat[1], chat[2], "none", FALSE),
                       [BaseEnv EXCEPT !.send = send])
    /\ UNCHANGED slot_vars

\* A message the oracle reads as a register_* action it is confident of.
\* At most one of db_ok and prompt_success is read in one call.
RegisterMessage(u) ==
    /\ smart_inventory /\ NoPending(u)
    /\ \E reply \in RegisterReplies, o \in Outcomes :
        handle_message(u, Msg("private", FALSE, "none", FALSE),
                       [BaseEnv EXCEPT !.reply = reply, !.db_ok = o[1],
                                       !.prompt_success = o[1], !.send = o[2]])
    /\ UNCHANGED slot_vars

\* A message the oracle cannot read or is unsure of, or a call that fails.
UnclearMessage(u) ==
    /\ smart_inventory /\ NoPending(u)
    /\ \E reply \in UnclearReplies, chat \in HandledChats, fault \in BOOLEAN :
        /\ reply # BadReply => chat[1] = "private" /\ ~fault
        /\ handle_message(u, Msg(chat[1], chat[2], "none", FALSE),
                          [BaseEnv EXCEPT !.reply = reply, !.fault = fault])
    /\ UNCHANGED slot_vars

\* A stock query or a single inventory action (the database fails when
\* ~ok), or a finance question (the answer is empty when ~ok).
QueryMessage(u) ==
    /\ smart_inventory /\ NoPending(u)
    /\ \E reply \in QueryReplies, ok \in BOOLEAN :
        handle_message(u, Msg("private", FALSE, "none", FALSE),
                       [BaseEnv EXCEPT !.reply = reply, !.db_ok = ok,
                                       !.answer = IF ok THEN Str(<<"respuesta">>)
                                                  ELSE Str(<<>>)])
    /\ UNCHANGED slot_vars

MultiMessage(u) ==
    /\ smart_inventory /\ NoPending(u)
    /\ \E how \in {"ok", "json", "error"}, multi \in MultiReplies,
          reply \in FallbackReplies, db_ok \in BOOLEAN :
        /\ how = "ok" => reply = BadReply
        /\ how # "ok" => multi = NoMulti /\ db_ok
        /\ handle_message(u, Msg("private", FALSE, "none", TRUE),
                          [BaseEnv EXCEPT !.how = how, !.multi = multi,
                                          !.reply = reply, !.db_ok = db_ok])
    /\ UNCHANGED slot_vars

\* A message that answers the prompt of the pending action, or anything
\* else the user sends while an action is pending.
SupplementalMessage(u) ==
    /\ smart_inventory /\ ~NoPending(u)
    /\ \E supplement \in Supplements(get_pending_action(user_data[u])[1].missing_fields.l),
          o \in Outcomes, fault \in BOOLEAN, multi \in BOOLEAN :
        /\ fault \/ multi => o = <<TRUE, "ok">> /\ \A i \in DOMAIN supplement :
                                                    supplement[i][2] = None
        /\ handle_message(u, Msg("private", FALSE, "none", multi),
                          [BaseEnv EXCEPT !.supplement = supplement, !.db_ok = o[1],
                                          !.prompt_success = o[1], !.send = o[2],
                                          !.fault = fault])
    /\ UNCHANGED slot_vars

SoloUsers == {"u1"}

Init == InitConv /\ IdleSlots

Next ==
    \E u \in SoloUsers :
        \/ GroupMessageIgnored(u)
        \/ BasicMessage(u)
        \/ FallbackMessage(u)
        \/ RegisterMessage(u)
        \/ UnclearMessage(u)
        \/ QueryMessage(u)
        \/ MultiMessage(u)
        \/ SupplementalMessage(u)

Spec == Init /\ [][Next]_vars

\* Two users write to the same chat bot, their messages handled one after
\* the other in any order (main.py:168-184 builds the application without
\* concurrent updates, so one handle_message ends before the next begins).
PurchaseMessage(u) ==
    /\ smart_inventory /\ NoPending(u)
    /\ \E d \in {x \in FreshDicts("register_purchase") :
                    x.quantity # None /\ x.cost # None /\ x.provider # Str(<<>>)} :
        handle_message(u, Msg("private", FALSE, "none", FALSE),
                       [BaseEnv EXCEPT !.reply = Reply(TRUE, "register_purchase",
                                                       Num(MinConfidence), d)])
    /\ UNCHANGED slot_vars

NextTwoUsers ==
    \E u \in AllUsers :
        \/ GroupMessageIgnored(u)
        \/ BasicMessage(u)
        \/ FallbackMessage(u)
        \/ PurchaseMessage(u)
        \/ SupplementalMessage(u)

SpecTwoUsers == Init /\ [][NextTwoUsers]_vars

\* The slot-filling rules applied to drawn inputs.
InitSlotRules == InitConv /\ smart_inventory /\ InitSlots

NextSlotRules == ApplyCheckMissing /\ UNCHANGED conv_vars

SpecSlotRules == InitSlotRules /\ [][NextSlotRules]_vars

\* PendingAction's merge and persistence applied to drawn inputs.
InitMerge ==
    /\ InitConv /\ smart_inventory
    /\ sK \in MergePendings
    /\ sF \in MergeSupplements
    /\ sOut = <<>>
    /\ spc = "drawn"

ApplyMerge ==
    /\ spc = "drawn"
    /\ sOut' = [once |-> merge_with_supplement(sK, sF),
                twice |-> merge_with_supplement(merge_with_supplement(sK, sF), sF),
                round |-> from_dict(to_dict(sK)),
                stored |-> get_pending_action(set_pending_action(EmptyUserData, sK))]
    /\ spc' = "merged"
    /\ UNCHANGED <<sK, sF, conv_vars>>

SpecMerge == InitMerge /\ [][ApplyMerge]_vars


\* The inventory on its own: calls of the mutations of InventoryService on
\* the rows, and of the handlers that look the typed name up first.  sOut is
\* the last call: q its quantity in thousandths, before the stock it found,
\* quantity what the mutation returned.
MaxUnits == 2   \* cap of a row's stock, in hundredths

NoInventoryCall ==
    [op |-> "none", level |-> "none", name |-> <<>>, q |-> 0,
     before |-> [p \in Products |-> NoRow], success |-> FALSE, text |-> "",
     quantity |-> 0]

InitInventory ==
    /\ InitConv /\ smart_inventory
    /\ sK = <<>> /\ sF = <<>>
    /\ sOut = NoInventoryCall
    /\ spc = "inventory"

AfterMutation(op, p, q, out) ==
    /\ out.quantity <= MaxUnits
    /\ inventory' = IF out.ok THEN [inventory EXCEPT ![p] = out.quantity] ELSE inventory
    /\ sOut' = [op |-> op, level |-> "service", name |-> p, q |-> q,
                before |-> inventory, success |-> out.ok, text |-> out.error,
                quantity |-> out.quantity]
    /\ UNCHANGED <<smart_inventory, user_data, gastos, last, sK, sF, spc>>

CallMutation ==
    /\ spc = "inventory"
    /\ \E op \in {"add_quantity", "remove_quantity", "update_quantity"},
          p \in Products, q \in {0 - 10, 0, 4, 5, 10, 20} :
        /\ inventory[p] # NoRow
        /\ AfterMutation(op, p, q,
                CASE op = "add_quantity" -> add_quantity(inventory[p], q)
                  [] op = "remove_quantity" -> remove_quantity(inventory[p], q)
                  [] OTHER -> update_quantity(inventory[p], q))

AfterHandler(kind, name, n, unit, h) ==
    /\ \A p \in Products : h.inventory[p] <= MaxUnits
    /\ inventory' = h.inventory
    /\ sOut' = [op |-> kind, level |-> "handler", name |-> name, q |-> 10 * n,
                unit |-> unit, before |-> inventory, success |-> h.success,
                text |-> h.text, quantity |-> 0]
    /\ UNCHANGED <<smart_inventory, user_data, gastos, last, sK, sF, spc>>

\* The unit the message names, or none: the oracle is told to answer null
\* for a unit that is not specified (nlp_service.py:56).
CallHandler ==
    /\ spc = "inventory"
    /\ \E kind \in {"add_quantity", "remove_quantity", "update_quantity", "add_new"},
          name \in {Harina, Harna, Hrna, <<"a">>}, n \in {0 - 1, 0, 1, 2},
          unit \in {Str(<<"kg">>), None} :
        \* a misspelling is typed of a product that is in stock
        /\ name \in {Harna, Hrna} => inventory[Harina] # NoRow
        /\ AfterHandler(kind, name, n, unit,
            RunOne([action |-> kind, ingredient_name |-> Str(name),
                    quantity |-> Num(n), unit |-> unit], inventory, TRUE))

Todo == <<"T", "o", "d", "o">>

\* "cuanto X hay": the stock of one ingredient, or of all of them.
CallCheckStock ==
    /\ spc = "inventory"
    /\ \E name \in {Harina, Harna, Hrna, <<"a">>, Todo}, db_ok \in BOOLEAN :
        /\ inventory' = _handle_check_stock(inventory, Str(name), db_ok).inventory
        /\ sOut' = [op |-> "check_stock", level |-> "handler", name |-> name,
                    q |-> 0, unit |-> None, before |-> inventory,
                    success |-> _handle_check_stock(inventory, Str(name), db_ok).success,
                    text |-> _handle_check_stock(inventory, Str(name), db_ok).text,
                    quantity |-> 0,
                    lines |-> StockLines(inventory, Str(name), db_ok),
                    db_ok |-> db_ok]
    /\ UNCHANGED <<smart_inventory, user_data, gastos, last, sK, sF, spc>>

SpecInventory == InitInventory /\ [][CallMutation \/ CallHandler \/ CallCheckStock]_vars


\* Two sessions that adjust the stock of one row at the same time, each a
\* call of add_quantity or remove_quantity: the query that loads the row
\* (inventory_service.py:134, 172), then the computation on the loaded
\* value and the commit that writes the result (138-139, 176-183).  The
\* sessions are those of get_db_session (db.py:47-53, 66-79): no lock is
\* taken and the isolation level is the database's default, so a query sees
\* what is committed when it runs and a commit writes the value the session
\* computed.  sK are the two calls, sF the sessions, sOut the stock at the
\* start.
Sessions == {1, 2}

InitSessions ==
    /\ smart_inventory = TRUE /\ user_data = [u \in AllUsers |-> EmptyUserData]
    /\ gastos = 0 /\ last = NoCall
    /\ sOut \in 0..MaxUnits
    /\ inventory = [p \in Products |-> IF p = Harina THEN sOut ELSE NoRow]
    /\ sK \in [Sessions -> [op : {"add_quantity", "remove_quantity"}, q : {0, 10, 20}]]
    /\ sF = [i \in Sessions |-> [pc |-> "called", item |-> 0, success |-> FALSE]]
    /\ spc = "sessions"

\* The test of the argument and the query of the row.
SessionLoads(i) ==
    /\ spc = "sessions" /\ sF[i].pc = "called"
    /\ sF' = [sF EXCEPT ![i] = IF sK[i].q <= 0
                                THEN [pc |-> "returned", item |-> 0, success |-> FALSE]
                                ELSE [pc |-> "loaded", item |-> inventory[Harina],
                                      success |-> FALSE]]
    /\ UNCHANGED <<conv_vars, sK, sOut, spc>>

SessionWrites(i, out) ==
    /\ sF' = [sF EXCEPT ![i] = [pc |-> "returned", item |-> out.quantity,
                                success |-> out.ok]]
    /\ inventory' = IF out.ok THEN [inventory EXCEPT ![Harina] = out.quantity]
                     ELSE inventory
    /\ UNCHANGED <<smart_inventory, user_data, gastos, last, sK, sOut, spc>>

\* The computation on the loaded row and the commit.
SessionCommits(i) ==
    /\ spc = "sessions" /\ sF[i].pc = "loaded"
    /\ SessionWrites(i, IF sK[i].op = "add_quantity"
                         THEN add_quantity(sF[i].item, sK[i].q)
                         ELSE remove_quantity(sF[i].item, sK[i].q))

SpecSessions ==
    InitSessions /\ [][\E i \in Sessions : SessionLoads(i) \/ SessionCommits(i)]_vars


(***************************************************************************)
(* A series of calls of register_purchase and register_expense on the      *)
(* tables of the entities, one after the other.  sF are the tables, sK the *)
(* number of calls made, sOut the last call: its arguments, the tables     *)
(* before it and what it gave.  The tables start as the seed leaves them   *)
(* (tests/conftest.py:45-56).                                              *)
(***************************************************************************)
MaxCalls == 2

HarinaAcute == <<"H", "a", "r", "í", "n", "a">>
Tc == <<"T", "C">>
Td == <<"t", "d">>
PorTransferencia ==
    <<"p", "o", "r", " ", "t", "r", "a", "n", "s", "f", "e", "r", "e", "n",
      "c", "i", "a">>

SeedTables ==
    [proveedores |-> <<>>, metodos_pago |-> <<Efectivo, Debito, Transferencia>>,
     categorias |-> <<>>, productos |-> <<>>, tipos_gasto |-> <<Fijo, Variable, Ajuste>>]

TypedNames == {Str(Harina), Str(HarinaAcute), Str(Harna)}

InitFinance ==
    /\ smart_inventory = TRUE /\ user_data = [u \in AllUsers |-> EmptyUserData]
    /\ inventory = [p \in Products |-> NoRow]
    /\ gastos = 0 /\ last = NoCall
    /\ sF = SeedTables /\ sK = 0
    /\ sOut = [op |-> "none", product_name |-> None, category_name |-> None,
               provider_name |-> None, payment_method_name |-> None,
               before |-> SeedTables, gave |-> Failed(SeedTables)]
    /\ spc = "finance"

AfterFinance(op, product_name, category_name, provider_name, payment_method_name, gave) ==
    /\ sF' = gave.tables
    /\ sK' = sK + 1
    /\ sOut' = [op |-> op, product_name |-> product_name,
                category_name |-> category_name, provider_name |-> provider_name,
                payment_method_name |-> payment_method_name,
                before |-> sF, gave |-> gave]
    /\ UNCHANGED <<conv_vars, spc>>

CallPurchase ==
    /\ spc = "finance" /\ sK < MaxCalls
    /\ \E product_name \in TypedNames \cup {None},
          provider_name \in {None, Str(Harina), Str(HarinaAcute)},
          payment_method_name \in {None, Str(Tc)}, db_ok \in BOOLEAN :
        AfterFinance("register_purchase", product_name, None, provider_name,
                     payment_method_name,
                     register_purchase_entities(sF, product_name, provider_name,
                                                payment_method_name, db_ok))

CallExpense ==
    /\ spc = "finance" /\ sK < MaxCalls
    /\ \E category_name \in TypedNames \cup {None},
          provider_name \in {None, Str(Harna)},
          payment_method_name \in {Str(Td), Str(PorTransferencia), Str(Harina)},
          db_ok \in {TRUE} :
        AfterFinance("register_expense", None, category_name, provider_name,
                     payment_method_name,
                     register_expense_entities(sF, category_name, provider_name,
                                               payment_method_name, db_ok))

SpecFinance == InitFinance /\ [][CallPurchase \/ CallExpense]_vars


(***************************************************************************)
(* FuzzyMatcher applied to drawn texts.  sK is the first text, sF the      *)
(* second, sOut what normalize_string, calculate_similarity and            *)
(* is_close_match give for them.                                           *)
(***************************************************************************)
MaxLen == 3

TextsOver(alphabet) == UNION {[1..k -> alphabet] : k \in 0..MaxLen}

\* letters, a capital with an accent, whitespace, punctuation, and two texts
\* with a tab and a digit whose whitespace has to be collapsed
FirstTexts ==
    TextsOver({"a", "b", "Á", " ", "-"})
    \cup {<<"a", " ", "\t", "b">>, <<"Á", " ", "-", " ", "1">>}
SecondTexts == TextsOver({"a", "b", "c"}) \cup {<<"-">>, <<" ">>}

CloseThresholds == {<<1, 100>>, <<8, 10>>, <<1, 1>>}

InitFuzzy ==
    /\ InitConv /\ smart_inventory
    /\ sK \in FirstTexts
    /\ sF \in SecondTexts
    /\ sOut = [called |-> FALSE]
    /\ spc = "texts"

ApplyFuzzy ==
    /\ spc = "texts"
    /\ sOut' = [called |-> TRUE,
                normal1 |-> normalize_string(sK),
                normal2 |-> normalize_string(sF),
                again |-> normalize_string(normalize_string(sK)),
                similarity |-> calculate_similarity(sK, sF),
                reverse |-> calculate_similarity(sF, sK),
                close |-> {t \in CloseThresholds : is_close_match(sK, sF, t)}]
    /\ spc' = "compared"
    /\ UNCHANGED <<sK, sF, conv_vars>>

SpecFuzzy == InitFuzzy /\ [][ApplyFuzzy]_vars

\* find_best_match and find_best_matches applied to a drawn target, list of
\* candidates and threshold: sK is [target, candidates, min_similarity].
MaxCandidates == 3

CandidateNames == {Harina, HarinaAcute, Hrna, <<"a">>, <<>>}

InitBestMatch ==
    /\ InitConv /\ smart_inventory
    /\ sK \in [target : {Harna, <<"a">>, <<>>},
               candidates : UNION {[1..k -> CandidateNames] : k \in 0..MaxCandidates},
               min_similarity : {<<0, 1>>, <<7, 10>>, <<9, 10>>, <<1, 1>>}]
    /\ sF = <<>>
    /\ sOut = [called |-> FALSE]
    /\ spc = "target"

ApplyBestMatch ==
    /\ spc = "target"
    /\ sOut' = [called |-> TRUE,
                best |-> find_best_match(sK.target, sK.candidates, sK.min_similarity),
                matches |-> find_best_matches(sK.target, sK.candidates,
                                              sK.min_similarity, 3)]
    /\ spc' = "matched"
    /\ UNCHANGED <<sK, sF, conv_vars>>

SpecBestMatch == InitBestMatch /\ [][ApplyBestMatch]_vars


(***************************************************************************)
(* normalize_unit applied to a drawn unit and quantity: sK is the unit, sF *)
(* the quantity, sOut what normalize_unit gives.                           *)
(***************************************************************************)
Cda == <<"c", "d", "a">>

\* The tokens of the table, some of them with capitals or blanks around
\* them, units the table does not have, the empty unit and no unit.
TypedUnits ==
    {Str(u) : u \in GramTokens \cup KilogramTokens \cup MilliliterTokens
                    \cup LiterTokens \cup CountTokens}
    \cup {Str(<<"G">>), Str(<<" ", "m", "l">>), Str(<<"K", "g", " ">>),
          Str(<<"P", "c", "s">>), Str(Cda), Str(<<"C", "d", "a">>),
          Str(<<"c", "d", "a", " ">>), Str(<<"g", "r">>), Str(<<>>), None}

InitUnits ==
    /\ InitConv /\ smart_inventory
    /\ sK \in TypedUnits
    /\ sF \in {1, 500, 1000, 2500}
    /\ sOut = <<>>
    /\ spc = "unit"

ApplyNormalizeUnit ==
    /\ spc = "unit"
    /\ sOut' = normalize_unit(sK, sF)
    /\ spc' = "normalized"
    /\ UNCHANGED <<sK, sF, conv_vars>>

SpecUnits == InitUnits /\ [][ApplyNormalizeUnit]_vars


(***************************************************************************)
(* format_missing_fields_prompt applied to a drawn list of field names: sK *)
(* is the list, sOut the prompt.  The names are those the table of         *)
(* translations has; a list may name a field twice.                        *)
(***************************************************************************)
MaxFields == 4

TranslatedFields ==
    {"ingredient_name", "quantity", "unit", "cost", "provider", "payment_method",
     "expense_category", "reason"}

InitPrompt ==
    /\ InitConv /\ smart_inventory
    /\ sK \in UNION {[1..k -> TranslatedFields] : k \in 1..MaxFields}
    /\ sF = <<>>
    /\ sOut = <<>>
    /\ spc = "fields"

ApplyPrompt ==
    /\ spc = "fields"
    /\ sOut' = format_missing_fields_prompt(sK)
    /\ spc' = "prompted"
    /\ UNCHANGED <<sK, sF, conv_vars>>

SpecPrompt == InitPrompt /\ [][ApplyPrompt]_vars


(***************************************************************************)
(* One call of register_purchase or of register_expense on a database.     *)
(* sF is the database before the call, sK the arguments and the fault of   *)
(* the call, sOut what the call gives.  The database is that of the seed   *)
(* (tests/conftest.py:38-56), or that of the seed after a purchase, or     *)
(* after a purchase and an expense.                                        *)
(***************************************************************************)
SeedDb == [tables |-> SeedTables, gastos |-> <<>>, inventario |-> <<>>]

StockedDb ==
    FinanceService_register_purchase(SeedDb, Str(Harina), Num(1), Num(1),
                                     Str(Harina), None, "none").db

PaidDb ==
    FinanceService_register_expense(StockedDb, Str(Harina), Num(1), None,
                                    Str(Td), "none").db

PurchaseCalls ==
    [op : {"register_purchase"},
     product_name : {Str(Harina), Str(HarinaAcute), None}, category_name : {None},
     quantity : {Num(1), None}, cost : {Num(1), None},
     provider_name : {None, Str(Harina)}, payment_method_name : {None, Str(Tc)},
     fault : Faults]

ExpenseCalls ==
    [op : {"register_expense"},
     product_name : {None}, category_name : {Str(Harina), Str(Harna), None},
     quantity : {None}, cost : {Num(1), None},
     provider_name : {None, Str(Harna)},
     payment_method_name : {Str(Td), Str(PorTransferencia)},
     fault : Faults]

InitLedger ==
    /\ smart_inventory = TRUE /\ user_data = [u \in AllUsers |-> EmptyUserData]
    /\ inventory = [p \in Products |-> NoRow]
    /\ gastos = 0 /\ last = NoCall
    /\ sF \in {SeedDb, StockedDb, PaidDb}
    /\ sK \in PurchaseCalls \cup ExpenseCalls
    /\ sOut = <<>>
    /\ spc = "ledger"

ApplyPurchase ==
    /\ spc = "ledger" /\ sK.op = "register_purchase"
    /\ sOut' = FinanceService_register_purchase(sF, sK.product_name, sK.quantity,
                    sK.cost, sK.provider_name, sK.payment_method_name, sK.fault)
    /\ spc' = "registered"
    /\ UNCHANGED <<sK, sF, conv_vars>>

ApplyExpense ==
    /\ spc = "ledger" /\ sK.op = "register_expense"
    /\ sOut' = FinanceService_register_expense(sF, sK.category_name, sK.cost,
                    sK.provider_name, sK.payment_method_name, sK.fault)
    /\ spc' = "registered"
    /\ UNCHANGED <<sK, sF, conv_vars>>

SpecLedger == InitLedger /\ [][ApplyPurchase \/ ApplyExpense]_vars


(***************************************************************************)
(* The objects behind a user's pending action.  A Python list is a cell of *)
(* the heap and a value names it by its reference; the other attributes    *)
(* hold immutable values.  sF is the heap and the user's data, sK the      *)
(* PendingAction objects handed out and still held, sOut the last call and *)
(* the value that was stored before it.                                    *)
(***************************************************************************)
MaxCells == 3     \* lists allocated
MaxHandles == 2   \* PendingAction objects held at a time

Ref(n) == [t |-> "ref", s |-> <<>>, n |-> n, l |-> <<>>]

\* The value of an object or of a stored dict: its list read from the heap.
Deref(heap, obj) == [obj EXCEPT !.missing_fields = List(heap[obj.missing_fields.n])]

\* asdict(self) (conversation_state.py:46): the dict of the attributes, the
\* list copied into a cell of its own.
AsDictOnHeap(heap, obj) ==
    [heap |-> Append(heap, heap[obj.missing_fields.n]),
     dict |-> [obj EXCEPT !.missing_fields = Ref(Len(heap) + 1)]]

\* cls(**data) (conversation_state.py:51): the attributes are bound to the
\* values of the dict, the list of the dict included.
FromDictOnHeap(data) == [k \in DOMAIN data |-> data[k]]

\* PendingAction(...) of the value p: a new object whose list is a new cell.
Allocated(heap, p) ==
    [heap |-> Append(heap, p.missing_fields.l),
     obj |-> [p EXCEPT !.missing_fields = Ref(Len(heap) + 1)]]

\* setattr(self, field, value): a list value is the supplement's own list.
SetAttr(m, field, value) ==
    IF value.t = "list"
    THEN [heap |-> Append(m.heap, value.l),
          obj |-> [m.obj EXCEPT ![field] = Ref(Len(m.heap) + 1)]]
    ELSE [heap |-> m.heap, obj |-> [m.obj EXCEPT ![field] = value]]

\* self.missing_fields.remove(field), when field is in the list.
RemoveMissing(m, field) ==
    IF field \in Range(m.heap[m.obj.missing_fields.n])
    THEN [m EXCEPT !.heap[m.obj.missing_fields.n] = ListRemove(@, field)]
    ELSE m

\* One iteration of merge_with_supplement's loop on the object m.obj.
MergeItemOnHeap(m, field, value) ==
    IF value.t # "none" /\ field \in DOMAIN m.obj
    THEN RemoveMissing(SetAttr(m, field, value), field)
    ELSE m

RECURSIVE MergeOnHeap(_, _)
MergeOnHeap(m, supplement_data) ==
    IF supplement_data = <<>> THEN m
    ELSE MergeOnHeap(MergeItemOnHeap(m, Head(supplement_data)[1],
                                     Head(supplement_data)[2]),
                     Tail(supplement_data))

\* The value stored for the user: <<>> when there is none.
StoredValue(store) ==
    IF store.user_data.pending_action = <<>> THEN <<>>
    ELSE <<Deref(store.heap, store.user_data.pending_action[1])>>

HeldPendings ==
    {NewPendingAction("register_purchase", "compre",
                      [f \in SlotFieldNames |->
                            IF f \in {"provider", "payment_method"} THEN None
                            ELSE GoodValue(f)],
                      List(<<"provider", "payment_method">>)),
     NewPendingAction("register_usage", "use",
                      [f \in SlotFieldNames |->
                            IF f = "quantity" THEN None ELSE GoodValue(f)],
                      List(<<"quantity">>))}

HeldSupplements ==
    {<<<<"provider", Str(<<"b">>)>>>>, <<<<"payment_method", Str(<<"b">>)>>>>,
     <<<<"quantity", Num(1)>>>>, <<<<"provider", None>>>>,
     <<<<"unit", Str(<<"b">>)>>, <<"foo", Str(<<"b">>)>>>>,
     <<<<"missing_fields", List(<<"cost">>)>>>>}

InitHeld ==
    /\ InitConv /\ smart_inventory
    /\ sF = [heap |-> <<>>, user_data |-> EmptyUserData]
    /\ sK = <<>>
    /\ sOut = [op |-> "none", before |-> <<>>]
    /\ spc = "held"

AfterHeld(op, store, held) ==
    /\ Len(store.heap) <= MaxCells
    /\ sF' = store
    /\ sK' = held
    /\ sOut' = [op |-> op, before |-> StoredValue(sF)]
    /\ UNCHANGED <<spc, conv_vars>>

\* set_pending_action of a PendingAction the orchestrator built.
StoreOf(heap, ud, made) ==
    [heap |-> AsDictOnHeap(made.heap, made.obj).heap,
     user_data |-> [ud EXCEPT !.pending_action = <<AsDictOnHeap(made.heap, made.obj).dict>>]]

SetNewPending ==
    /\ spc = "held"
    /\ \E p \in HeldPendings :
        AfterHeld("set_pending_action",
                  StoreOf(sF.heap, sF.user_data, Allocated(sF.heap, p)), sK)

\* set_pending_action of an object that was handed out.
SetHeldPending ==
    /\ spc = "held"
    /\ \E i \in DOMAIN sK :
        AfterHeld("set_pending_action",
                  StoreOf(sF.heap, sF.user_data, [heap |-> sF.heap, obj |-> sK[i]]),
                  sK)

\* get_pending_action (conversation_state.py:82-88)
HandOut ==
    /\ spc = "held" /\ Len(sK) < MaxHandles
    /\ sF.user_data.pending_action # <<>>
    /\ AfterHeld("get_pending_action", sF,
                 Append(sK, FromDictOnHeap(sF.user_data.pending_action[1])))

\* merge_with_supplement on an object that was handed out
MergeHeld ==
    /\ spc = "held"
    /\ \E i \in DOMAIN sK, s \in HeldSupplements :
        AfterHeld("merge_with_supplement",
                  [sF EXCEPT !.heap = MergeOnHeap([heap |-> sF.heap, obj |-> sK[i]], s).heap],
                  [sK EXCEPT ![i] = MergeOnHeap([heap |-> sF.heap, obj |-> sK[i]], s).obj])

\* clear_pending_action; the objects held are dropped with it.
ClearHeld ==
    /\ spc = "held" /\ sF.user_data.pending_action # <<>>
    /\ AfterHeld("clear_pending_action",
                 [sF EXCEPT !.user_data = clear_pending_action(@)], <<>>)

SpecHeld ==
    InitHeld /\ [][SetNewPending \/ SetHeldPending \/ HandOut \/ MergeHeld \/ ClearHeld]_vars


(***************************************************************************)
(* _process_multiple_ingredients_command on the parse of one message with  *)
(* several ingredients.  sK are the parsed actions, sF tells whether the   *)
(* database answers, inventory is the stock the message finds and, after   *)
(* the call, the stock it leaves; sOut is what the call gave.  A quantity  *)
(* is counted in hundredths.                                               *)
(***************************************************************************)
MaxParsed == 3   \* actions parsed from the message

ParsedAction(action, name, quantity, unit) ==
    [action |-> action, ingredient_name |-> name, quantity |-> quantity, unit |-> unit]

\* What the oracle's JSON holds for an action: an addition, a removal and a
\* stock query of the ingredient 'a', an action it could not name, and an
\* addition whose quantity it wrote as a text, in grams.
ParsedChoices ==
    {ParsedAction("add_quantity", Str(<<"a">>), Num(1), Str(<<"k", "g">>)),
     ParsedAction("remove_quantity", Str(<<"a">>), Num(1), Str(<<"k", "g">>)),
     ParsedAction("check_stock", Str(<<"a">>), None, None),
     ParsedAction("unknown", Str(<<>>), None, None),
     ParsedAction("add_quantity", Str(<<"a">>), Str(<<"5", "0", "0">>), Str(<<"g">>))}

InitParsed ==
    /\ smart_inventory = TRUE /\ user_data = [u \in AllUsers |-> EmptyUserData]
    /\ inventory \in {[p \in Products |-> IF p = <<"a">> THEN q ELSE NoRow] :
                        q \in {NoRow, 0, 1}}
    /\ gastos = 0 /\ last = NoCall
    /\ sK \in UNION {[1..n -> ParsedChoices] : n \in 1..MaxParsed}
    /\ sF \in BOOLEAN
    /\ sOut = <<>>
    /\ spc = "parsed"

ApplyParsed ==
    /\ spc = "parsed"
    /\ sOut' = [before |-> inventory,
                gave |-> ProcessMultiple([actions |-> sK,
                                          overall_confidence |-> Num(MinConfidence)],
                                         sF, inventory, gastos)]
    /\ inventory' = ProcessMultiple([actions |-> sK,
                                     overall_confidence |-> Num(MinConfidence)],
                                    sF, inventory, gastos).inventory
    /\ spc' = "applied"
    /\ UNCHANGED <<smart_inventory, user_data, gastos, last, sK, sF>>

SpecParsed == InitParsed /\ [][ApplyParsed]_vars


(***************************************************************************)
(* The claims.  They are stated on last, the record of the last call, and  *)
(* on what the user's data holds after it.                                 *)
(***************************************************************************)
\* A string of whitespace only.
Blank(v) == v.t = "str" /\ \A i \in DOMAIN v.s : v.s[i] = " "

\* The field f of the field map F is told: present, not None, not blank and,
\* for the cost, not zero.
Told(F, f) ==
    /\ f \in DOMAIN F
    /\ F[f].t # "none"
    /\ ~Blank(F[f])
    /\ ~(f = "cost" /\ F[f].t = "num" /\ F[f].n = 0)

\* The required fields of the kind K that F does not tell, in their order.
Untold(K, F) ==
    LET Lacks(f) == ~Told(F, f)
    IN SelectSeq(get_required_fields(K), Lacks)

\* C10: for every action kind K and field map F, check_missing_fields(K, F)
\* is a subset of get_required_fields(K), and it is empty iff every required
\* field of K is present, not None, not a blank string and (cost only) not
\* zero.
C10_MissingFieldsOfRequired ==
    spc = "done" =>
        /\ Range(sOut) \subseteq Range(get_required_fields(sK))
        /\ sOut = <<>> <=> \A f \in Range(get_required_fields(sK)) : Told(sF, f)

\* A purchase whose only flaw is a cost of zero lacks its cost.
C10_Witness ==
    /\ spc = "done" /\ sK = "register_purchase"
    /\ "cost" \in DOMAIN sF /\ sF["cost"] = Num(0)
    /\ sOut = <<"cost">>

\* The last call was a call of the orchestrator with a fresh message that
\* names one action.
FreshCall ==
    /\ last.route = "nlp" /\ ~last.supplemental /\ ~last.multi
    /\ last.parsed # <<>>

\* ... and the oracle is confident of a register_* action.
FreshRegister ==
    /\ FreshCall
    /\ last.parsed[1].action \in RegisterKinds
    /\ last.parsed[1].confidence.t = "num"
    /\ last.parsed[1].confidence.n >= MinConfidence

IdleAfter ==
    /\ user_data[last.user].pending_action = <<>>
    /\ get_state(user_data[last.user]) = "idle"

KnownKinds == RegisterKinds \cup InventoryKinds \cup {"finance_report"}

C6_LowConfidenceRejected ==
    last.route = "nlp" /\ last.parsed # <<>> /\ last.parsed[1].confidence.t = "num" =>
        /\ last.parsed[1].confidence.n < 60 =>
                /\ ~last.changed /\ ~last.wrote /\ last.exec = <<>>
                /\ ~last.success
                /\ last.response = TxtRephrase
                /\ last.new_pending = <<>>
                /\ user_data[last.user].pending_action = <<>>
        /\ last.parsed[1].confidence.n = 60 => last.response # TxtRephrase

\* The oracle is unsure of a multi-ingredient message.
C6_Witness ==
    /\ last.route = "nlp" /\ last.multi /\ last.parsed # <<>>
    /\ last.parsed[1].ok /\ last.parsed[1].confidence = Num(59)
    /\ last.response = TxtRephrase /\ ~last.success

\* The oracle's reply to the last call could not be parsed, or its call
\* failed.
Unparsed == last.route = "nlp" /\ last.parsed # <<>> /\ ~last.parsed[1].ok

\* C7 as the specification states it: a reply that cannot be parsed gets the
\* 'did not understand' response of the Unknown branch, success = false, no
\* write and no pending action.
C7_UnparsedLikeUnknown ==
    Unparsed =>
        /\ last.response = TxtNotUnderstood
        /\ ~last.success /\ ~last.changed /\ last.new_pending = <<>>

\* C7, amended: a reply that cannot be parsed is taken as an action of
\* confidence 0.0, so the user receives the request to rephrase of the
\* low-confidence branch (and not the 'did not understand' response of the
\* Unknown branch), with success = false, no write and no pending action.
C7_UnparsedAsNoConfidence ==
    Unparsed =>
        /\ last.parsed[1].confidence = Num(0)
        /\ last.response = TxtRephrase
        /\ ~last.success /\ ~last.changed /\ last.exec = <<>>
        /\ last.new_pending = <<>>
        /\ user_data[last.user].pending_action = <<>>

\* A single message whose oracle reply cannot be parsed: the user is asked
\* to rephrase.
C7_Witness ==
    /\ Unparsed /\ ~last.multi
    /\ last.parsed[1].action = "unknown"
    /\ last.response = TxtRephrase /\ last.replied = TxtRephrase

Merged == spc = "merged"

\* The items of the supplement that merge_with_supplement takes.
Taken(sup, p) ==
    {i \in DOMAIN sup : sup[i][2] # None /\ sup[i][1] \in DOMAIN p}

\* The names the supplement tells.
ToldNames(sup, p) == {sup[i][1] : i \in Taken(sup, p)}

\* C11: merging a supplement twice leaves the pending action with the same
\* field values and the same missing_fields as merging it once.
C11_MergeIdempotent == Merged => sOut.twice = sOut.once

\* C12: after the merge, every field of the supplement that has a non-null
\* value and names a PendingAction field holds that value, and its name
\* occurs nowhere in missing_fields.
C12_ToldFieldsSetAndRemoved ==
    Merged =>
        \A i \in Taken(sF, sK) :
            /\ sOut.once[sF[i][1]] = sF[i][2]
            /\ sF[i][1] \notin Range(sOut.once.missing_fields.l)

\* The position of the first occurrence of x in l, 0 when there is none.
IndexOf(l, x) ==
    IF x \in Range(l) THEN CHOOSE i \in DOMAIN l : l[i] = x /\ \A j \in 1..(i - 1) : l[j] # x
    ELSE 0

OwnMissing(ud) ==
    IF has_pending_action(ud) THEN Len(get_pending_action(ud)[1].missing_fields.l)
    ELSE 0

C15_UsersIsolated ==
    [][\A u \in AllUsers :
        last'.user = u =>
            /\ \A v \in AllUsers \ {u} : user_data'[v] = user_data[v]
            /\ last'.route = "nlp" =>
                    /\ last'.supplemental = has_pending_action(user_data[u])
                    /\ last'.missing_in = OwnMissing(user_data[u])]_vars

\* u1 completed its pending action while the one of u2 stays pending.
C15_Witness ==
    /\ last.user = "u1" /\ last.supplemental /\ last.success
    /\ ~has_pending_action(user_data["u1"])
    /\ get_state(user_data["u1"]) = "idle"
    /\ has_pending_action(user_data["u2"])
    /\ get_state(user_data["u2"]) = "awaiting_purchase_details"


(***************************************************************************)
(* The claims on the inventory are stated on sOut, the last call of a      *)
(* mutation or of a handler, and on the stock before and after it.         *)
(***************************************************************************)
\* The row a handler acts on for the match it found: none when there is no
\* match or when it takes the name for a likely typo.
RowOf(fuzzy_match) ==
    IF fuzzy_match = <<>> THEN <<>>
    ELSE IF LikelyTypo(fuzzy_match) THEN <<>>
    ELSE <<fuzzy_match[1]>>

TakenRow == RowOf(get_ingredient_by_name_fuzzy(sOut.before, Str(sOut.name), <<7, 10>>))

Insufficient(requested, available) ==
    "No se pueden quitar " \o Thousandths(requested) \o ". Solo hay "
    \o Hundredths(available) \o " disponibles."

RefusedWith(row, told) ==
    /\ ~sOut.success
    /\ sOut.text = told
    /\ inventory = sOut.before

(***************************************************************************)
(* C16: removing more than the product's current stock fails: success is   *)
(* false, the response states the available stock and the requested        *)
(* amount, and the stock is unchanged.  Both for remove_quantity on a row   *)
(* and for _handle_remove_quantity on the row it resolves the name to.     *)
(***************************************************************************)
C16_InsufficientStockFails ==
    /\ sOut.op = "remove_quantity" /\ sOut.level = "service"
            /\ sOut.q > 10 * sOut.before[sOut.name]
        => RefusedWith(sOut.name, Insufficient(sOut.q, sOut.before[sOut.name]))
    /\ sOut.op = "remove_quantity" /\ sOut.level = "handler" /\ TakenRow # <<>>
            /\ sOut.q > 10 * sOut.before[TakenRow[1]]
        => RefusedWith(TakenRow[1],
                       "Error: " \o Insufficient(sOut.q, sOut.before[TakenRow[1]]))

\* 0.20 of "harna" is to be removed while there is 0.01 of harina.
C16_Witness ==
    /\ sOut.op = "remove_quantity" /\ sOut.level = "handler"
    /\ sOut.name = Harna /\ sOut.q = 20
    /\ sOut.before[Harina] = 1
    /\ ~sOut.success /\ inventory[Harina] = 1

(***************************************************************************)
(* C17: after any sequence of add_ingredient, add_quantity,                *)
(* remove_quantity and update_quantity calls, successful or failing, the   *)
(* quantity of every row is >= 0.                                          *)
(***************************************************************************)
C17_QuantityNeverNegative ==
    /\ \A p \in Products :
            sOut.before[p] # NoRow \/ inventory[p] # NoRow => inventory[p] >= 0
    /\ sOut.level = "service" /\ sOut.success => sOut.quantity >= 0

\* A removal that takes all there is, and a refused update to a negative
\* quantity.
C17_Witness ==
    \/ /\ sOut.op = "remove_quantity" /\ sOut.level = "service" /\ sOut.success
       /\ sOut.before[sOut.name] > 0 /\ inventory[sOut.name] = 0
    \/ /\ sOut.op = "update_quantity" /\ sOut.level = "service" /\ sOut.q < 0
       /\ ~sOut.success /\ inventory = sOut.before

(***************************************************************************)
(* C18: sequentially, an addition of q raises the product's stock by       *)
(* exactly q (a newly created product starts at q) and a successful        *)
(* removal of q lowers it by exactly q.                                    *)
(***************************************************************************)
C18_ExactArithmetic ==
    /\ sOut.level = "service" /\ sOut.success /\ sOut.op = "add_quantity"
        => 10 * inventory[sOut.name] = 10 * sOut.before[sOut.name] + sOut.q
    /\ sOut.level = "service" /\ sOut.success /\ sOut.op = "remove_quantity"
        => 10 * inventory[sOut.name] = 10 * sOut.before[sOut.name] - sOut.q
    /\ sOut.level = "handler" /\ sOut.success /\ sOut.op \in {"add_quantity", "add_new"}
            /\ sOut.name \in Products /\ sOut.before[sOut.name] = NoRow
        => 10 * inventory[sOut.name] = sOut.q

(***************************************************************************)
(* C20: when the typed name has no exact match, a best match of 0.9 or     *)
(* more has the operation executed on the matched row silently, one in     *)
(* [0.7, 0.9) has it executed on the matched row with the answer annotated *)
(* 'corrected from', and below 0.7 the name is treated as a new product.   *)
(***************************************************************************)
Delta == IF sOut.op = "add_quantity" THEN sOut.q \div 10 ELSE 0 - (sOut.q \div 10)

ExecutedOn(row, told) ==
    /\ inventory = [sOut.before EXCEPT ![row] = @ + Delta]
    /\ sOut.success
    /\ sOut.text \in told

TierOf(best) ==
    IF best # <<>> /\ AtLeast(best[2], <<9, 10>>)
    THEN 10 * sOut.before[best[1]] + 10 * Delta >= 0
         => ExecutedOn(best[1], {"Se agregaron", "Se quitaron"})
    ELSE IF best # <<>> /\ AtLeast(best[2], <<7, 10>>)
    THEN 10 * sOut.before[best[1]] + 10 * Delta >= 0
         => ExecutedOn(best[1], {"Se agregaron (corregido de)",
                                 "Se quitaron (corregido de)"})
    ELSE sOut.op = "add_quantity"
         => sOut.success /\ inventory = [sOut.before EXCEPT ![sOut.name] = Delta]

C20_FuzzyTiers ==
    /\ sOut.level = "handler" /\ sOut.op \in {"add_quantity", "remove_quantity"}
    /\ sOut.q > 0
    /\ get_ingredient_by_name(sOut.before, Str(sOut.name)) = <<>>
    => TierOf(find_best_match(sOut.name, RowNames(sOut.before), <<0, 1>>))

(***************************************************************************)
(* C19: for any interleaving of two concurrent add_quantity /              *)
(* remove_quantity calls on the same product, the final stock is the       *)
(* initial stock plus the successful additions minus the successful        *)
(* removals, and is never negative.                                        *)
(***************************************************************************)
Effect(i) ==
    IF ~sF[i].success THEN 0
    ELSE IF sK[i].op = "add_quantity" THEN sK[i].q \div 10
    ELSE 0 - (sK[i].q \div 10)

C19_NoLostUpdate ==
    /\ inventory[Harina] >= 0
    /\ (\A i \in Sessions : sF[i].pc = "returned")
        => inventory[Harina] = sOut + Effect(1) + Effect(2)

(***************************************************************************)
(* C21: when a typed name matches no entity (no exact row and no fuzzy     *)
(* candidate), the mutation creates a new entity with the typed name and   *)
(* completes successfully rather than failing: _handle_add_quantity of a   *)
(* quantity that is not negative, for a name no row matches and no row is  *)
(* similar to, succeeds and leaves a row of that name.                     *)
(***************************************************************************)
NoMatch(inv, name) ==
    /\ get_ingredient_by_name(inv, Str(name)) = <<>>
    /\ get_ingredient_by_name_fuzzy(inv, Str(name), <<7, 10>>) = <<>>

C21_NoMatchCreates ==
    /\ sOut.level = "handler" /\ sOut.op = "add_quantity" /\ sOut.q >= 0
    /\ NoMatch(sOut.before, sOut.name)
    => /\ sOut.success
       /\ inventory = [sOut.before EXCEPT ![Strip(sOut.name)] = sOut.q \div 10]

(***************************************************************************)
(* C22: after any series of register_purchase and register_expense calls   *)
(* that starts from tables without normalized duplicates, no two records   *)
(* of one class of entity (provider, payment method, category, product)    *)
(* have names that are equal after normalization of case and accents.      *)
(***************************************************************************)
NoNormalizedDuplicates(table) ==
    \A i, j \in DOMAIN table :
        i # j => normalize_string(table[i]) # normalize_string(table[j])

C22_NoNormalizedDuplicates ==
    spc = "finance"
    => /\ NoNormalizedDuplicates(sF.proveedores)
       /\ NoNormalizedDuplicates(sF.metodos_pago)
       /\ NoNormalizedDuplicates(sF.categorias)
       /\ NoNormalizedDuplicates(sF.productos)

(***************************************************************************)
(* C23: a stock check with a wildcard name ('todo', 'all', 'inventory',    *)
(* ...) returns success = true and lists every tracked item with its       *)
(* quantity; on an empty inventory it returns success = true with the      *)
(* message that the inventory is empty, not an error.  The database        *)
(* answers the query.                                                      *)
(***************************************************************************)
Tracked(inv) == {p \in Products : inv[p] # NoRow}

C24_NotFoundNoEffect ==
    sOut.op = "check_stock"
    => /\ inventory = sOut.before
       /\ (/\ sOut.db_ok /\ Lower(sOut.name) \notin StockWildcards
           /\ NoMatch(sOut.before, sOut.name))
          => /\ sOut.success /\ sOut.lines = {}
             /\ sOut.text = "no se encontro en el inventario"

C24_Witness ==
    /\ sOut.op = "check_stock" /\ sOut.db_ok /\ sOut.name = <<"a">>
    /\ sOut.before[Harina] # NoRow /\ NoMatch(sOut.before, sOut.name)
    /\ sOut.text = "no se encontro en el inventario"

(***************************************************************************)
(* C25: for all strings a and b whose normalized forms are equal, and in   *)
(* particular for a = b, calculate_similarity(a, b) = 1.0.                 *)
(***************************************************************************)
IsOne(similarity) == similarity[1] = similarity[2]
IsZero(similarity) == similarity[1] = 0

C25_EqualNormalFormsAreOne ==
    sOut.called /\ sOut.normal1 = sOut.normal2 => IsOne(sOut.similarity)

\* C25 as the code has it: for all strings a and b that are not empty and
\* whose normalized forms are equal, calculate_similarity(a, b) = 1.0.
C25_EqualNormalFormsOfNonEmptyAreOne ==
    sOut.called /\ sK # <<>> /\ sF # <<>> /\ sOut.normal1 = sOut.normal2
    => IsOne(sOut.similarity)

C25_Witness ==
    /\ sOut.called /\ sK = <<"Á", "-", "b">> /\ sF = <<"a", "b">>
    /\ sOut.normal1 = sOut.normal2 /\ IsOne(sOut.similarity)

(***************************************************************************)
(* C26: calculate_similarity returns 0.0 whenever either argument is       *)
(* empty, so is_close_match of two empty strings is False for any positive *)
(* threshold.                                                              *)
(***************************************************************************)
C26_EmptyIsZero ==
    sOut.called /\ (sK = <<>> \/ sF = <<>>)
    => IsZero(sOut.similarity) /\ IsZero(sOut.reverse) /\ sOut.close = {}

C26_Witness ==
    sOut.called /\ sK = <<>> /\ sF = <<>> /\ sOut.close = {}

(***************************************************************************)
(* C27: calculate_similarity is symmetric and bounded: for all strings a   *)
(* and b, calculate_similarity(a, b) = calculate_similarity(b, a), and the *)
(* value lies in [0, 1].                                                   *)
(***************************************************************************)
SameValue(x, y) == x[1] * y[2] = y[1] * x[2]

C27_SymmetricAndBounded ==
    sOut.called
    => /\ SameValue(sOut.similarity, sOut.reverse)
       /\ AtLeast(sOut.similarity, <<0, 1>>) /\ AtLeast(<<1, 1>>, sOut.similarity)

(***************************************************************************)
(* C28: normalize_string(normalize_string(s)) = normalize_string(s) for    *)
(* all strings s; normalize_string maps the empty string to the empty      *)
(* string, and its result contains only the characters a-z, 0-9 and single *)
(* interior spaces.                                                        *)
(***************************************************************************)
NormalShape(s) ==
    /\ \A i \in DOMAIN s : s[i] \in Letters \cup Digits \cup {" "}
    /\ s # <<>> => s[1] # " " /\ s[Len(s)] # " "
    /\ \A i \in 1..(Len(s) - 1) : ~(s[i] = " " /\ s[i + 1] = " ")

C28_NormalizeIdempotent ==
    sOut.called
    => /\ sOut.again = sOut.normal1
       /\ sK = <<>> => sOut.normal1 = <<>>
       /\ NormalShape(sOut.normal1)

C28_Witness ==
    /\ sOut.called /\ sK = <<"Á", " ", "-", " ", "1">>
    /\ sOut.normal1 = <<"a", " ", "1">> /\ sOut.again = sOut.normal1

(***************************************************************************)
(* C29: find_best_match(target, candidates, t) returns None iff no         *)
(* candidate has similarity >= t to the target; otherwise it returns a     *)
(* candidate whose score is the maximum over all candidates and is >= t,   *)
(* and among the candidates of that score the one that is first in the     *)
(* list; it equals the first element of find_best_matches.                 *)
(***************************************************************************)
ScoreOf(i) == calculate_similarity(sK.target, sK.candidates[i])

Qualifying == {i \in DOMAIN sK.candidates : AtLeast(ScoreOf(i), sK.min_similarity)}

IsBest(i) ==
    /\ i \in Qualifying
    /\ \A j \in DOMAIN sK.candidates : AtLeast(ScoreOf(i), ScoreOf(j))
    /\ \A j \in 1..(i - 1) : ~AtLeast(ScoreOf(j), ScoreOf(i))

BestIsFirstOfMaximum ==
    /\ sOut.best # <<>>
        => \E i \in DOMAIN sK.candidates :
                IsBest(i) /\ sOut.best = <<sK.candidates[i], ScoreOf(i)>>
    /\ sOut.best = FirstOrNone(sOut.matches)

C29_BestMatch ==
    sOut.called => /\ sOut.best = <<>> <=> Qualifying = {}
                   /\ BestIsFirstOfMaximum

\* C29 as the code has it: None iff the target is empty or no candidate has
\* similarity >= t; otherwise as the claim says.
C29_BestMatchOfTarget ==
    sOut.called => /\ sOut.best = <<>> <=> (sK.target = <<>> \/ Qualifying = {})
                   /\ BestIsFirstOfMaximum

C29_Witness ==
    /\ sOut.called /\ sK.target = Harna /\ sK.min_similarity = <<7, 10>>
    /\ sK.candidates = <<Hrna, HarinaAcute, Harina>>
    /\ sOut.best = <<HarinaAcute, <<10, 11>>>>

(***************************************************************************)
(* C30: normalize_unit never rejects a unit: gram tokens give (q/1000,     *)
(* 'kg'), millilitre tokens give (q/1000, 'liters'), count-unit synonyms   *)
(* give (q, 'pcs'), for English and Spanish tokens alike, and any unit     *)
(* outside the table is passed through with the quantity unchanged and the *)
(* unit unchanged.  A token of the table is recognised whatever its case   *)
(* and the blanks around it; the units passed through are those that are   *)
(* typed.                                                                  *)
(***************************************************************************)
UnitTable ==
    GramTokens \cup KilogramTokens \cup MilliliterTokens \cup LiterTokens
    \cup CountTokens

\* The unit as it was typed, <<>> for none.
TypedUnit == IF sK.t = "str" THEN sK.s ELSE <<>>

TokenOfTyped == Strip(Lower(TypedUnit))

UnitsOfTable ==
    /\ TokenOfTyped \in GramTokens => sOut = <<<<sF, 1000>>, Kg>>
    /\ TokenOfTyped \in MilliliterTokens => sOut = <<<<sF, 1000>>, Liters>>
    /\ TokenOfTyped \in CountTokens => sOut = <<<<sF, 1>>, Pcs>>

C30_UnitsNormalized ==
    spc = "normalized"
    => /\ UnitsOfTable
       /\ TypedUnit # <<>> /\ TokenOfTyped \notin UnitTable
          => sOut = <<<<sF, 1>>, TypedUnit>>

(***************************************************************************)
(* C31: for every non-empty list of missing field names the prompt of      *)
(* format_missing_fields_prompt contains the Spanish translation of each   *)
(* field exactly once in list order, joins the last two with ' y ' and the *)
(* earlier ones with commas, and contains no conjunction when the list     *)
(* has a single field.  The prompt is the opening, then the translation of *)
(* every entry of the list at its place with one separator between two     *)
(* neighbours.                                                             *)
(***************************************************************************)
Spanish(f) ==
    CASE f = "ingredient_name" -> "nombre del producto"
      [] f = "quantity" -> "cantidad"
      [] f = "unit" -> "unidad de medida"
      [] f = "cost" -> "precio"
      [] f = "provider" -> "proveedor"
      [] f = "payment_method" -> "medio de pago"
      [] f = "expense_category" -> "categoria del gasto"
      [] f = "reason" -> "motivo"

PiecesThatAre(text) == {j \in DOMAIN sOut : sOut[j] = text}

C31_PromptListsFields ==
    spc = "prompted"
    => /\ Len(sOut) = 2 * Len(sK)
       /\ sOut[1] = "Por favor indicame: "
       /\ \A i \in DOMAIN sK : sOut[2 * i] = Spanish(sK[i])
       /\ \A i \in 1..(Len(sK) - 1) :
            sOut[2 * i + 1] = IF i = Len(sK) - 1 THEN " y " ELSE ", "
       /\ Cardinality(PiecesThatAre(" y ")) = IF Len(sK) = 1 THEN 0 ELSE 1
       /\ \A i \in DOMAIN sK :
            (\A j \in DOMAIN sK : sK[j] = sK[i] => j = i)
            => PiecesThatAre(Spanish(sK[i])) = {2 * i}

C31_Witness ==
    /\ spc = "prompted"
    /\ sK = <<"ingredient_name", "quantity", "cost", "provider">>
    /\ sOut = <<"Por favor indicame: ", "nombre del producto", ", ", "cantidad",
                ", ", "precio", " y ", "proveedor">>

(***************************************************************************)
(* C32: a register_expense call that returns its Gasto has written exactly  *)
(* one row of gastos, of the type 'Fijo', with the category, the provider  *)
(* and the payment method the names resolve to, and without a product; and *)
(* no register_expense call, failed or not, changes a row of inventario or *)
(* the catalogue of products.                                              *)
(***************************************************************************)
\* The record is the one the name resolves to in the table before the
\* call: a record the table had that the name matches, or the new record of
\* that name at the end of the table.
Matches(name, record) ==
    \/ Lower(record) = Lower(name)
    \/ normalize_string(record) = normalize_string(name)
    \/ is_close_match(name, record, <<9, 10>>)

ResolvedIn(before, after, name, reference) ==
    /\ Len(reference) = 1
    /\ \/ /\ after = before
          /\ reference[1] \in Range(before) /\ Matches(name, reference[1])
       \/ /\ after = Append(before, name)
          /\ reference[1] = name /\ \A r \in Range(before) : ~Matches(name, r)

ExpenseRow(before, after, call, row) ==
    /\ row.tipo_gasto = <<Fijo>>
    /\ row.producto = <<>> /\ row.cantidad_comprada = None
    /\ row.monto = call.cost
    /\ ResolvedIn(before.categorias, after.categorias,
                  IF call.category_name = None THEN General ELSE call.category_name.s,
                  row.categoria)
    /\ ResolvedIn(before.proveedores, after.proveedores,
                  IF call.provider_name = None THEN Desconocido ELSE call.provider_name.s,
                  row.proveedor)
    /\ ResolvedIn(before.metodos_pago, after.metodos_pago,
                  _normalize_payment_method(call.payment_method_name),
                  row.metodo_pago)

C32_ExpenseWritesOneFijo ==
    spc = "registered" /\ sK.op = "register_expense"
    => /\ sOut.db.inventario = sF.inventario
       /\ sOut.db.tables.productos = sF.tables.productos
       /\ sOut.returned # <<>>
          => /\ sOut.db.gastos = Append(sF.gastos, sOut.returned[1])
             /\ ExpenseRow(sF.tables, sOut.db.tables, sK, sOut.returned[1])

C32_Witness ==
    /\ spc = "registered" /\ sK.op = "register_expense"
    /\ sF = StockedDb /\ sF.inventario = <<[producto |-> Harina, cantidad_actual |-> 1]>>
    /\ sK.category_name = None /\ sK.provider_name = Str(Harna)
    /\ sK.payment_method_name = Str(Td)
    /\ sOut.returned = <<Gasto(Num(1), <<Harina>>, <<TarjetaDeDebito>>, <<>>, None,
                               <<Fijo>>, <<General>>)>>
    /\ Len(sOut.db.gastos) = 2

(***************************************************************************)
(* C33: get_required_fields gives the fixed ordered entry of its table for *)
(* register_purchase, register_expense and register_usage, and the empty   *)
(* list for every other kind; so check_missing_fields of a kind without an *)
(* entry is empty, whatever the fields hold.                               *)
(***************************************************************************)
C33_RequiredFieldsTable ==
    spc = "done"
    => /\ sK = "register_purchase"
          => get_required_fields(sK) =
                <<"ingredient_name", "quantity", "unit", "cost", "provider",
                  "payment_method">>
       /\ sK = "register_expense"
          => get_required_fields(sK) =
                <<"expense_category", "cost", "provider", "payment_method">>
       /\ sK = "register_usage"
          => get_required_fields(sK) = <<"ingredient_name", "quantity">>
       /\ sK \notin RegisterKinds
          => get_required_fields(sK) = <<>> /\ sOut = <<>>

C33_Witness ==
    /\ spc = "done" /\ sK = "Register_Purchase"
    /\ "ingredient_name" \notin DOMAIN sF
    /\ "cost" \in DOMAIN sF /\ sF["cost"] = Num(0)
    /\ sOut = <<>>

(***************************************************************************)
(* C34: after every handle_message of any sequence of a user's messages,   *)
(* the user's conversation state is IDLE exactly when no pending action is *)
(* stored for them, and when one is stored the state is the Awaiting state *)
(* of its kind: AWAITING_PURCHASE_DETAILS for register_purchase,           *)
(* AWAITING_EXPENSE_DETAILS for register_expense, AWAITING_USAGE_DETAILS   *)
(* for register_usage.                                                     *)
(***************************************************************************)
AwaitingStateOf(kind) ==
    CASE kind = "register_purchase" -> "awaiting_purchase_details"
      [] kind = "register_expense" -> "awaiting_expense_details"
      [] kind = "register_usage" -> "awaiting_usage_details"
      [] OTHER -> "none"

StateMatchesPending(ud) ==
    /\ get_state(ud) = "idle" <=> ~has_pending_action(ud)
    /\ has_pending_action(ud)
       => /\ get_pending_action(ud) # <<>>
          /\ get_state(ud) = AwaitingStateOf(ActionOf(get_pending_action(ud)[1]))

C35_HandedOutIsCopy ==
    spc = "held" /\ sOut.op \in {"merge_with_supplement", "get_pending_action"}
    => StoredValue(sF) = sOut.before

(***************************************************************************)
(* C36: merge_with_supplement keeps missing_fields consistent with the     *)
(* detector of missing fields: when missing_fields is                      *)
(* check_missing_fields(action, fields) before the merge, then after the   *)
(* merge of any supplement it is check_missing_fields(action, merged       *)
(* fields); a field leaves missing_fields only when it holds a value that  *)
(* is not null, not blank and, for the cost, not zero.                     *)
(***************************************************************************)
\* The data fields of a pending action, as the dict the detector reads.
FieldsOf(p) == [f \in Range(DataFields) |-> p[f]]

DetectorAgrees(p) ==
    /\ p.missing_fields.t = "list"
    /\ p.missing_fields.l = check_missing_fields(ActionOf(p), FieldsOf(p))

C36_MergeKeepsDetected == Merged /\ DetectorAgrees(sK) => DetectorAgrees(sOut.once)

(***************************************************************************)
(* C37: merge_with_supplement never changes the kind (action) of the       *)
(* pending action or its original_message, and changes nothing other than *)
(* the nine optional data fields and missing_fields, whatever keys the     *)
(* supplement has; the keys that name no data field are ignored.           *)
(***************************************************************************)
\* The items of the supplement whose key names a data field.
RECURSIVE DataItems(_)
DataItems(sup) ==
    IF sup = <<>> THEN <<>>
    ELSE IF Head(sup)[1] \in Range(DataFields)
    THEN <<Head(sup)>> \o DataItems(Tail(sup))
    ELSE DataItems(Tail(sup))

C37_MergeKeepsIdentity ==
    Merged
    => /\ sOut.once.action = sK.action
       /\ sOut.once.original_message = sK.original_message
       /\ DOMAIN sOut.once = DOMAIN sK
       /\ sOut.once = merge_with_supplement(sK, DataItems(sF))

(***************************************************************************)
(* C38: register_purchase and register_expense are all-or-nothing: a call  *)
(* in which a step fails returns None, and no provider, payment method,    *)
(* category, product or expense record created during it remains: the      *)
(* database is as it was before the call.                                  *)
(***************************************************************************)
C38_AllOrNothing ==
    spc = "registered" /\ sOut.returned = <<>> => sOut.db = sF

(***************************************************************************)
(* C39: the parsed actions of a multi-ingredient message are applied       *)
(* independently, in the order of the list: an action that fails or is     *)
(* unknown neither stops nor undoes the others, every parsed action has    *)
(* one result line, and the overall success is true exactly when at least  *)
(* one action succeeded.                                                   *)
(***************************************************************************)
\* What one action gives on the stock inv when it is applied on its own; an
\* action whose handling raises has failed and changed nothing.
AppliedAlone(a, inv, db_ok) ==
    IF NormalizeRaises(a) THEN HResult(FALSE, "Error procesando", inv)
    ELSE RunOne(a, inv, db_ok)

\* The stock after the actions were applied one after the other, and the
\* number of them that succeeded.
RECURSIVE AppliedInOrder(_, _, _)
AppliedInOrder(actions, inv, db_ok) ==
    IF actions = <<>> THEN [inventory |-> inv, success_count |-> 0]
    ELSE [AppliedInOrder(Tail(actions),
                         AppliedAlone(Head(actions), inv, db_ok).inventory, db_ok)
          EXCEPT !.success_count =
                    @ + IF AppliedAlone(Head(actions), inv, db_ok).success THEN 1 ELSE 0]

C39_EachActionApplied ==
    spc = "applied"
    => /\ inventory = AppliedInOrder(sK, sOut.before, sF).inventory
       /\ Len(sOut.gave.response.s) = 1 + Len(sK)
       /\ sOut.gave.success <=> AppliedInOrder(sK, sOut.before, sF).success_count > 0

(***************************************************************************)
(* C40: a message that is answered by a basic keyword response (greeting,  *)
(* how-are-you, goodbye), or that is ignored as a group message that does  *)
(* not mention the bot, is never passed to the orchestrator and leaves the *)
(* user's stored pending action and conversation state as they were.       *)
(***************************************************************************)
BasicKeywords == {"greeting", "how_are_you", "goodbye"}

\* A reply reached the user, and it is not the apology of a failed send.
Answered(call) == call.replied # None /\ call.replied # TxtApology

KeepsConversation(u) ==
    /\ get_pending_action(user_data'[u]) = get_pending_action(user_data[u])
    /\ get_state(user_data'[u]) = get_state(user_data[u])

C40_BasicAndIgnoredKeepPending ==
    [][\A u \in AllUsers :
        /\ last'.user = u /\ last'.message = "unmentioned"
           => /\ last'.route = "ignored" /\ last'.replied = None
              /\ KeepsConversation(u)
        /\ last'.user = u /\ last'.message \in BasicKeywords /\ Answered(last')
           => /\ last'.route = "basic"
              /\ last'.replied = handle_response([basic |-> last'.message])
              /\ KeepsConversation(u)]_vars

\* A greeting is answered while a purchase is pending, and the purchase is
\* still pending.
C40_Witness ==
    /\ last.user = "u1" /\ last.message = "greeting" /\ last.route = "basic"
    /\ last.replied = handle_response([basic |-> "greeting"])
    /\ has_pending_action(user_data["u1"])
    /\ get_state(user_data["u1"]) = "awaiting_purchase_details"

====
